---- MODULE Spec2Model ----
(***************************************************************************)
(* Model of the R&D tickets dashboard:                                     *)
(*   - components/data_loader.py: load_data_with_ui, fetch_sheet and its   *)
(*     st.cache_data cache (SpecFetch);                                    *)
(*   - components/filters.py: apply_dataframe_filters (SpecFilter,         *)
(*     SpecDates) and sidebar_filters with components/utils.py:            *)
(*     extract_clients, find_date_columns (SpecSidebar);                   *)
(*   - app.py: kpi_area, and components/local_chat.py:                     *)
(*     analyze_data_for_chat (SpecKpi);                                    *)
(*   - components/local_chat.py: local_chat_ui, components/ai_chat.py:     *)
(*     chat_ui (SpecChat) and ask_ai (SpecAsk);                            *)
(*   - app.py: main, with components/authentication.py (SpecApp);          *)
(*   - components/charts.py: chart_progress_funnel,                        *)
(*     chart_projects_by_keywords, components/report.py: _build_kpis       *)
(*     (SpecCharts, SpecSidebar).                                          *)
(***************************************************************************)
EXTENDS Integers, Sequences, FiniteSets, TLC

VARIABLES
    \* ---- environment of data_loader.py (module level, fixed per process)
    OPENPYXL_AVAILABLE,   \* data_loader.py:117-121
    GSPREAD_AVAILABLE,    \* data_loader.py:12-19
    secrets,              \* st.secrets: [gcp_service_account, spreadsheet_key]
    \* ---- one call of load_data_with_ui
    pc,                   \* position inside load_data_with_ui / fetch_sheet
    published_url,        \* published_url_override of the running call
    fargs,                \* <<spreadsheet_key, gid>> handed to fetch_sheet
    fetched,              \* (df, ts) returned by fetch_sheet
    ret,                  \* (df, last_updated) returned by load_data_with_ui
    attempts,             \* network strategies attempted by the running call
    \* ---- st.cache_data(ttl=60) around fetch_sheet, and the clock
    cache,
    now,
    loads,                \* number of load_data_with_ui calls so far
    lastRun,              \* history: per pair, when fetch_sheet's body last returned
    clearedSince,         \* history: per pair, cache cleared since its last call
    \* ---- apply_dataframe_filters
    df,                   \* the input table
    crit,                 \* the criteria of the last call
    out,                  \* the table it returned
    \* ---- kpi_area and analyze_data_for_chat on the filtered table
    kpi,                  \* the metrics kpi_area shows
    analysis,             \* a question, the columns analyze_data_for_chat found
                          \* for the roles, and the answer it gave
    \* ---- the two chats
    session_state,        \* st.session_state: the chat histories, by key
    openrouter_key,       \* st.secrets["openrouter"]["api_key"] is set
    turns,                \* history: the chat events, in the order they happened
    \* ---- one call of ask_ai
    ask,                  \* its position, model, attempt, requests and result
    \* ---- main: the session of one browser
    page,                 \* session table, its label, and what main displayed
    auth,                 \* authentication.py: the session's authenticated user
    \* ---- main: the sidebar and the charts of one run
    sidebar,              \* what sidebar_filters offered and what was chosen
    charts                \* what the charts and the report computed

fetchVars == <<OPENPYXL_AVAILABLE, GSPREAD_AVAILABLE, secrets, pc, published_url,
               fargs, fetched, ret, attempts, cache, now, loads, lastRun,
               clearedSince>>
filterVars == <<df, crit, out>>
kpiVars == <<kpi, analysis>>
chatVars == <<session_state, openrouter_key, turns>>
appVars == <<ask, page, auth>>
viewVars == <<sidebar, charts>>
vars == <<fetchVars, filterVars, kpiVars, chatVars, appVars, viewVars>>

None == "None"

\* the keys of the two chat histories in st.session_state
LocalChatKey == "local_chat_history"
\* one history for both chats
SharedChatKey == LocalChatKey
AiChatKey == "chat_history"
ChatKeys == {LocalChatKey, AiChatKey}

\* nothing was computed on the filtered table, nothing was said in a chat
KpiIdle == kpi = <<>> /\ analysis = <<>>
ChatIdle ==
    /\ session_state = [k \in ChatKeys |-> <<>>]
    /\ openrouter_key = FALSE
    /\ turns = <<>>

\* ask_ai is not running, main did not run, nobody logged in
AppIdle == ask = <<>> /\ page = <<>> /\ auth = <<>>

\* the sidebar was not drawn, no chart was computed
NoCharts == [funnel |-> <<>>, keywords |-> <<>>, report |-> <<>>]
ViewIdle == sidebar = <<>> /\ charts = NoCharts

(***************************************************************************)
(* Bounds of the model.                                                    *)
(***************************************************************************)
MaxLoads == 2
MaxTime == 90
TickSeconds == 30
MaxRows == 3
MaxKpiRows == 5
MaxTurns == 3
MaxRuns == 4

(***************************************************************************)
(* Strings: Python's str.lower, str.strip and the `in` substring test.     *)
(***************************************************************************)
LowerChar(c) ==
    CASE c = "A" -> "a" [] c = "B" -> "b" [] c = "C" -> "c" [] c = "D" -> "d"
      [] c = "E" -> "e" [] c = "F" -> "f" [] c = "G" -> "g" [] c = "H" -> "h"
      [] c = "I" -> "i" [] c = "J" -> "j" [] c = "K" -> "k" [] c = "L" -> "l"
      [] c = "M" -> "m" [] c = "N" -> "n" [] c = "O" -> "o" [] c = "P" -> "p"
      [] c = "Q" -> "q" [] c = "R" -> "r" [] c = "S" -> "s" [] c = "T" -> "t"
      [] c = "U" -> "u" [] c = "V" -> "v" [] c = "W" -> "w" [] c = "X" -> "x"
      [] c = "Y" -> "y" [] c = "Z" -> "z" [] OTHER -> c

RECURSIVE LowerByChar(_)
LowerByChar(s) ==
    IF s = "" THEN ""
    ELSE LowerChar(SubSeq(s, 1, 1)) \o LowerByChar(SubSeq(s, 2, Len(s)))

RECURSIVE LStrip(_)
LStrip(s) ==
    IF s # "" /\ SubSeq(s, 1, 1) = " " THEN LStrip(SubSeq(s, 2, Len(s))) ELSE s

RECURSIVE RStrip(_)
RStrip(s) ==
    IF s # "" /\ SubSeq(s, Len(s), Len(s)) = " "
    THEN RStrip(SubSeq(s, 1, Len(s) - 1)) ELSE s

Strip(s) == RStrip(LStrip(s))

\* needle in hay
ContainsByScan(hay, needle) ==
    \E i \in 1..(Len(hay) - Len(needle) + 1) :
        SubSeq(hay, i, i + Len(needle) - 1) = needle

Range(seq) == {seq[i] : i \in 1..Len(seq)}

(***************************************************************************)
(* components/data_loader.py                                               *)
(***************************************************************************)
TTL == 60

DefaultKey == "1RbibIdg2iqeoj7Iw0PphfypL7g2eREg4Ee9lgPzkoDU"

\* what the callers pass to load_data_with_ui
KeyOverrides == {None, "KEY_A"}
GidOverrides == {None}
UrlOverrides == {None, "  ", "https://pub/xlsx"}
SecretKeys == {None}

Keys == (KeyOverrides \ {None}) \cup (SecretKeys \ {None}) \cup {DefaultKey}
Pairs == Keys \X GidOverrides

\* a table as the fetcher sees it: where its content comes from, and df.empty
Table(src, isEmpty) == [source |-> src, empty |-> isEmpty]
_demo_df == Table("demo", FALSE)

\* time.strftime("%Y-%m-%d %H:%M:%S UTC", time.gmtime(ts)), and the literal "Demo"
TimestampLabel(ts) == [kind |-> "timestamp", ts |-> ts]
DemoLabel == [kind |-> "Demo", ts |-> -1]

\* outcomes of the collaborators' calls
XlsxOutcomes == {"ConnectionError", "HTTPError", "RuntimeError", "empty", "ok"}
ApiOutcomes == {"Exception", "no_worksheet", "no_rows", "ok"}
CsvExportOutcomes ==
    {"ConnectionError", "non200", "empty_body", "ParserError", "no_rows", "ok"}
PublishedCsvOutcomes ==
    {"ConnectionError", "HTTPError", "ParserError", "no_rows", "ok"}
Exceptions ==
    {"ImportError", "ConnectionError", "HTTPError", "RuntimeError", "ParserError",
     "Exception"}

Attempt(s, o) == [strategy |-> s, outcome |-> o]

\* load_data_with_ui: the except clauses around _load_published_xlsx
XlsxHandlersPropagate(e) == IF e = "ImportError" THEN "resolve" ELSE "raised"
XlsxHandlers(e) == IF e = "ImportError" THEN "resolve" ELSE "resolve"

\* load_data_with_ui: where the XLSX branch goes on each outcome of the download
XlsxNextNoReturn(o) ==
    IF o \in {"ok", "empty"} THEN "resolve" ELSE XlsxHandlers(o)
XlsxNext(o) ==
    IF o = "ok" THEN "done" ELSE IF o = "empty" THEN "resolve" ELSE XlsxHandlers(o)

\* load_data_with_ui: "published_url_override and published_url_override.strip()"
UrlSupplied(u) == u # None /\ Strip(u) # ""

\* load_data_with_ui: the spreadsheet key
ResolveKey(override) ==
    LET key == IF override # None /\ override # "" THEN override
               ELSE secrets.spreadsheet_key
    IN  IF key = None \/ key = "" THEN DefaultKey ELSE key

NoEntry == [present |-> FALSE]
Entry(t, ts) == [present |-> TRUE, df |-> t, ts |-> ts]

\* st.cache_data(ttl=60): an entry answers a call until its time-to-live is over
CacheHit(p) == cache[p].present /\ now - cache[p].ts < TTL

\* fetch_sheet returns (t, time.time()); st.cache_data stores what it returned
FetchSheetReturns(t) ==
    /\ fetched' = Entry(t, now)
    /\ cache' = [cache EXCEPT ![fargs] = Entry(t, now)]
    /\ lastRun' = [lastRun EXCEPT ![fargs] = now]
    /\ pc' = "post"

FetchInit ==
    /\ OPENPYXL_AVAILABLE \in BOOLEAN
    /\ GSPREAD_AVAILABLE \in BOOLEAN
    /\ secrets \in [gcp_service_account : BOOLEAN, spreadsheet_key : SecretKeys]
    /\ pc = "idle"
    /\ published_url = None
    /\ fargs = <<DefaultKey, None>>
    /\ fetched = NoEntry
    /\ ret = NoEntry
    /\ attempts = <<>>
    /\ cache = [p \in Pairs |-> NoEntry]
    /\ now = 0
    /\ loads = 0
    /\ lastRun = [p \in Pairs |-> -1]
    /\ clearedSince = [p \in Pairs |-> FALSE]

envVars == <<OPENPYXL_AVAILABLE, GSPREAD_AVAILABLE, secrets>>
histVars == <<lastRun, clearedSince>>

\* a caller enters load_data_with_ui
StartLoad(k, g, u) ==
    /\ pc \in {"idle", "done"}
    /\ loads < MaxLoads
    /\ loads' = loads + 1
    /\ published_url' = u
    /\ fargs' = <<ResolveKey(k), g>>
    /\ fetched' = NoEntry
    /\ ret' = NoEntry
    /\ attempts' = <<>>
    /\ pc' = "xlsx"
    /\ UNCHANGED <<envVars, cache, now, histVars, filterVars, kpiVars, chatVars, appVars, viewVars>>

\* load_data_with_ui: the XLSX branch is taken for a URL and with openpyxl
XlsxAvailable == UrlSupplied(published_url) /\ OPENPYXL_AVAILABLE

\* load_data_with_ui: the published XLSX branch
TryXlsx ==
    /\ pc = "xlsx"
    /\ XlsxAvailable
    /\ \E o \in XlsxOutcomes :
        /\ attempts' = Append(attempts, Attempt("xlsx", o))
        /\ pc' = XlsxNext(o)
        /\ ret' = IF XlsxNext(o) = "done"
                  THEN [df |-> Table("xlsx", FALSE),
                        last_updated |-> TimestampLabel(now)]
                  ELSE ret
    /\ UNCHANGED <<envVars, published_url, fargs, fetched, cache, now, loads,
                   histVars, filterVars, kpiVars, chatVars, appVars, viewVars>>

SkipXlsx ==
    /\ pc = "xlsx"
    /\ ~XlsxAvailable
    /\ pc' = "resolve"
    /\ UNCHANGED <<envVars, published_url, fargs, fetched, ret, attempts, cache,
                   now, loads, histVars, filterVars, kpiVars, chatVars, appVars, viewVars>>

\* the call fetch_sheet(key, gid_override) through st.cache_data
CallFetchSheet ==
    /\ pc = "resolve"
    /\ IF CacheHit(fargs)
       THEN /\ fetched' = cache[fargs]
            /\ pc' = "post"
       ELSE /\ fetched' = fetched
            /\ pc' = "api"
    /\ clearedSince' = [clearedSince EXCEPT ![fargs] = FALSE]
    /\ UNCHANGED <<envVars, published_url, fargs, ret, attempts, cache, now,
                   loads, lastRun, filterVars, kpiVars, chatVars, appVars, viewVars>>

\* fetch_sheet: the service account branch
ApiAvailable == GSPREAD_AVAILABLE /\ secrets.gcp_service_account

TryApi ==
    /\ pc = "api"
    /\ ApiAvailable
    /\ \E o \in ApiOutcomes :
        /\ attempts' = Append(attempts, Attempt("api", o))
        /\ CASE o = "Exception" ->
                    pc' = "csv_export" /\ UNCHANGED <<fetched, cache, lastRun, appVars, viewVars>>
             [] o \in {"no_worksheet", "no_rows"} ->
                    FetchSheetReturns(Table("api", TRUE))
             [] o = "ok" ->
                    FetchSheetReturns(Table("api", FALSE))
    /\ UNCHANGED <<envVars, published_url, fargs, ret, now, loads, clearedSince,
                   filterVars, kpiVars, chatVars, appVars, viewVars>>

SkipApi ==
    /\ pc = "api"
    /\ ~ApiAvailable
    /\ pc' = "csv_export"
    /\ UNCHANGED <<envVars, published_url, fargs, fetched, ret, attempts, cache,
                   now, loads, histVars, filterVars, kpiVars, chatVars, appVars, viewVars>>

\* fetch_sheet: the public CSV export endpoint
TryCsvExport ==
    /\ pc = "csv_export"
    /\ \E o \in CsvExportOutcomes :
        /\ attempts' = Append(attempts, Attempt("csv_export", o))
        /\ CASE o \in {"ConnectionError", "ParserError"} ->
                    pc' = "fallback" /\ UNCHANGED <<fetched, cache, lastRun, appVars, viewVars>>
             [] o \in {"non200", "empty_body"} ->
                    pc' = "csv_pub" /\ UNCHANGED <<fetched, cache, lastRun, appVars, viewVars>>
             [] o = "no_rows" ->
                    FetchSheetReturns(Table("csv_export", TRUE))
             [] o = "ok" ->
                    FetchSheetReturns(Table("csv_export", FALSE))
    /\ UNCHANGED <<envVars, published_url, fargs, ret, now, loads, clearedSince,
                   filterVars, kpiVars, chatVars, appVars, viewVars>>

\* fetch_sheet: the published CSV endpoint
TryPublishedCsv ==
    /\ pc = "csv_pub"
    /\ \E o \in PublishedCsvOutcomes :
        /\ attempts' = Append(attempts, Attempt("csv_pub", o))
        /\ CASE o \in {"ConnectionError", "HTTPError", "ParserError"} ->
                    pc' = "fallback" /\ UNCHANGED <<fetched, cache, lastRun, appVars, viewVars>>
             [] o = "no_rows" ->
                    FetchSheetReturns(Table("csv_pub", TRUE))
             [] o = "ok" ->
                    FetchSheetReturns(Table("csv_pub", FALSE))
    /\ UNCHANGED <<envVars, published_url, fargs, ret, now, loads, clearedSince,
                   filterVars, kpiVars, chatVars, appVars, viewVars>>

\* fetch_sheet: "except Exception", both branches return the demo table
DemoFallback ==
    /\ pc = "fallback"
    /\ FetchSheetReturns(_demo_df)
    /\ UNCHANGED <<envVars, published_url, fargs, ret, attempts, now, loads,
                   clearedSince, filterVars, kpiVars, chatVars, appVars, viewVars>>

\* load_data_with_ui after fetch_sheet returned
ReturnFetched ==
    /\ pc = "post"
    /\ ret' = IF ~fetched.df.empty
              THEN [df |-> fetched.df, last_updated |-> TimestampLabel(fetched.ts)]
              ELSE [df |-> _demo_df, last_updated |-> DemoLabel]
    /\ pc' = "done"
    /\ UNCHANGED <<envVars, published_url, fargs, fetched, attempts, cache, now,
                   loads, histVars, filterVars, kpiVars, chatVars, appVars, viewVars>>

\* clear_data_cache: fetch_sheet.clear()
fetch_sheet_clear_keeps == cache
fetch_sheet_clear == [p \in Pairs |-> NoEntry]

clear_data_cache ==
    /\ pc \in {"idle", "done"}
    /\ cache' = fetch_sheet_clear
    /\ clearedSince' = [p \in Pairs |-> TRUE]
    /\ UNCHANGED <<envVars, pc, published_url, fargs, fetched, ret, attempts, now,
                   loads, lastRun, filterVars, kpiVars, chatVars, appVars, viewVars>>

\* time passes between two interactions
Tick ==
    /\ pc \in {"idle", "done"}
    /\ now + TickSeconds <= MaxTime
    /\ now' = now + TickSeconds
    /\ UNCHANGED <<envVars, pc, published_url, fargs, fetched, ret, attempts,
                   cache, loads, histVars, filterVars, kpiVars, chatVars, appVars, viewVars>>

FilterIdle == df = <<>> /\ crit = <<>> /\ out = <<>>

FetchNext ==
    \/ \E k \in KeyOverrides, g \in GidOverrides, u \in UrlOverrides : StartLoad(k, g, u)
    \/ TryXlsx
    \/ SkipXlsx
    \/ CallFetchSheet
    \/ TryApi
    \/ SkipApi
    \/ TryCsvExport
    \/ TryPublishedCsv
    \/ DemoFallback
    \/ ReturnFetched
    \/ clear_data_cache
    \/ Tick

InitFetch == FetchInit /\ FilterIdle /\ KpiIdle /\ ChatIdle /\ AppIdle /\ ViewIdle

SpecFetch == InitFetch /\ [][FetchNext]_vars

(***************************************************************************)
(* components/filters.py                                                   *)
(*                                                                         *)
(* A table is [columns, rows]; a row carries its index label (the pandas   *)
(* index: the row's position in the loaded table) and one cell per column. *)
(* A cell is a string or NaN.                                              *)
(***************************************************************************)
NaN == "<NaN>"
NaT == 0

\* str(v), Series.astype(str)
PyStr(v) == IF v = NaN THEN "nan" ELSE v
\* Series.fillna("").astype(str)
FillNaStr(v) == IF v = NaN THEN "" ELSE v

Criteria(sp, kp, q, dr) ==
    [status_pick |-> sp, keyword_pick |-> kp, query |-> q, date_range |-> dr]

\* ---- the tables and criteria of the model
Schemas ==
    { <<"Status", "Summary", "Created">>,
      <<"STATUS", "Client", "Start">>,
      <<"status", "Description", "Due Date">>,
      <<"Project", "Due Date", "Created At">> }

RowPool ==
    { <<"Done", "Ticket for ACME client", "2025-10-01">>,
      <<"In Progress", "acme renewal", "2025-08-15">>,
      <<"done", "Globex; Initech", "2025-12-15">>,
      <<NaN, NaN, "n/a">> }

RowLists == UNION {[1..n -> RowPool] : n \in 0..MaxRows}

\* a loaded table: the rows are labelled 0, 1, 2, ... in their order
MakeTable(cols, cells) ==
    [columns |-> cols,
     rows |-> [i \in 1..Len(cells) |-> [idx |-> i - 1, cells |-> cells[i]]]]

Tables == {MakeTable(cols, cells) : cols \in Schemas, cells \in RowLists}

StatusPicks == {<<>>, <<"Done">>, <<"done", "nan">>}
KeywordPicks == {<<>>, <<"ACME">>, <<"Initech", "acme">>}
Queries == {"", "  ", " Acme ", "2025-1"}
DateRanges ==
    { <<None, None>>, <<"2025-09-01", "2025-12-01">>, <<"2025-10-01", None>>,
      <<None, "2025-10-01">> }

AllCriteria ==
    {Criteria(sp, kp, q, dr) :
        sp \in StatusPicks, kp \in KeywordPicks, q \in Queries, dr \in DateRanges}

EmptyCriteria == Criteria(<<>>, <<>>, "", <<None, None>>)

\* ---- the tables and questions given to kpi_area and analyze_data_for_chat;
\* a cell is read in the role that the name of its column gives it
KpiSchemas ==
    { <<"Status", "Assignee", "Due Date">>,
      <<"Status", "status", "Created">>,
      <<"Ticket", "Priority", "Severity">>,
      <<"Created", "Status", "Due">> }

KpiRowPool ==
    { <<"Active", " Done ", "2025-10-01">>,
      <<"done", "Blocked", "2025-12-15">>,
      <<"Pending", NaN, "n/a">>,
      <<"In Progress", "in progress", NaN>> }

KpiTables ==
    {MakeTable(cols, cells) :
        cols \in KpiSchemas,
        cells \in UNION {[1..n -> KpiRowPool] : n \in 0..MaxKpiRows}}

Questions ==
    { "How many tickets are in progress?", "how many are DONE", "count pending",
      "number of active tickets", "total blocked", "How many tickets?",
      "How many statuses are there", "Who is the owner?",
      "who has overdue priority work", "Status please", "severity",
      "anything late", "Give me an overview", "help", "hello" }

\* the words analyze_data_for_chat looks for in a question
QuestionWords ==
    {"how many", "count", "total", "number of", "in progress", "progress",
     "completed", "done", "pending", "active", "blocked", "who", "assignee",
     "assigned", "owner", "status", "statuses", "states", "priority",
     "priorities", "severity", "overdue", "late", "past due", "summary",
     "overview", "insights", "help", "what can", "questions"}

\* The strings of the model's tables and criteria. What lower(), `in` and
\* to_datetime give on them is computed once, by the definitions above and
\* below, and looked up afterwards.
Strings ==
    UNION {Range(c) : c \in Schemas} \cup UNION {Range(r) : r \in RowPool}
        \cup UNION {Range(sp) : sp \in StatusPicks}
        \cup UNION {Range(kp) : kp \in KeywordPicks}
        \cup UNION {Range(dr) : dr \in DateRanges}
        \cup {Strip(q) : q \in Queries} \cup {"", "nan"}
        \cup UNION {Range(c) : c \in KpiSchemas}
        \cup UNION {Range(r) \cup {Strip(v) : v \in Range(r)} : r \in KpiRowPool}
        \cup Questions

LowerOfStrings == [s \in Strings |-> LowerByChar(s)]

\* str.lower()
Lower(s) == IF s \in Strings THEN LowerOfStrings[s] ELSE LowerByChar(s)

ColumnWords ==
    {"status", "summary", "description", "client", "customer", "account",
     "keyword", "tag", "created", "date", "due"}
Needles ==
    ColumnWords \cup QuestionWords \cup {Lower(Strip(q)) : q \in Queries}
        \cup UNION {{Lower(k) : k \in Range(kp)} : kp \in KeywordPicks}
Haystacks == {Lower(s) : s \in Strings}
ContainsOfStrings ==
    [h \in Haystacks |-> [n \in Needles |-> ContainsByScan(h, n)]]

\* needle in hay
Contains(hay, needle) ==
    IF hay \in Haystacks /\ needle \in Needles
    THEN ContainsOfStrings[hay][needle]
    ELSE ContainsByScan(hay, needle)

DigitValue(c) ==
    CASE c = "0" -> 0 [] c = "1" -> 1 [] c = "2" -> 2 [] c = "3" -> 3
      [] c = "4" -> 4 [] c = "5" -> 5 [] c = "6" -> 6 [] c = "7" -> 7
      [] c = "8" -> 8 [] c = "9" -> 9 [] OTHER -> -1

RECURSIVE Number(_)
\* the value of a string of digits, -1 if it holds anything else
Number(s) ==
    IF s = "" THEN 0
    ELSE LET d == DigitValue(SubSeq(s, Len(s), Len(s)))
             n == Number(SubSeq(s, 1, Len(s) - 1))
         IN  IF d < 0 \/ n < 0 THEN -1 ELSE 10 * n + d

\* pd.to_datetime(v, errors="coerce") on an ISO date "YYYY-MM-DD": the date as
\* the number YYYYMMDD (ordered as the dates are), NaT for anything else
ParseIsoDate(v) ==
    IF v = NaN \/ Len(v) # 10 THEN NaT
    ELSE LET y == Number(SubSeq(v, 1, 4))
             m == Number(SubSeq(v, 6, 7))
             d == Number(SubSeq(v, 9, 10))
         IN  IF /\ SubSeq(v, 5, 5) = "-" /\ SubSeq(v, 8, 8) = "-"
                /\ y >= 1 /\ m \in 1..12 /\ d \in 1..31
             THEN 10000 * y + 100 * m + d
             ELSE NaT

DatesOfStrings == [s \in Strings |-> ParseIsoDate(s)]

to_datetime(v) == IF v \in Strings THEN DatesOfStrings[v] ELSE ParseIsoDate(v)

ColIndex(t, col) == CHOOSE i \in 1..Len(t.columns) : t.columns[i] = col
Cell(t, r, col) == r.cells[ColIndex(t, col)]

\* out.index and out.loc[i]
Index(t) == {r.idx : r \in Range(t.rows)}
Loc(t, i) == CHOOSE r \in Range(t.rows) : r.idx = i

\* out[mask]: the rows at whose index label the mask is True, in the table's
\* order; true is the set of labels where the boolean Series is True
BoolIndex(t, true) ==
    [t EXCEPT !.rows = SelectSeq(t.rows, LAMBDA r : r.idx \in true)]

\* col = "Status" if "Status" in out.columns else ("status" if ... else None)
StatusColumn(t) ==
    IF "Status" \in Range(t.columns) THEN "Status"
    ELSE IF "status" \in Range(t.columns) THEN "status"
    ELSE None

StatusStage(t, status_pick) ==
    IF status_pick # <<>>
    THEN LET col == StatusColumn(t)
             Mask(r) == PyStr(Cell(t, r, col)) \in Range(status_pick)
         IN  IF col # None THEN BoolIndex(t, {i \in Index(t) : Mask(Loc(t, i))}) ELSE t
    ELSE t

IsSummaryColumn(c) ==
    Contains(Lower(c), "summary") \/ Contains(Lower(c), "description")
IsKeywordColumn(c) ==
    \E k \in {"client", "customer", "account", "keyword", "tag"} :
        Contains(Lower(c), k)

StrContainsCase(v, kp) == Contains(v, kp)
\* Series.str.contains(kp, case=False, regex=False)
StrContainsNoCase(v, kp) == Contains(Lower(v), Lower(kp))

\* the mask of the keyword stage: a selected keyword occurs in a summary column
\* or in a client / keyword column
KeywordMask(t, keyword_pick, r) ==
    LET summary_cols == {i \in 1..Len(t.columns) : IsSummaryColumn(t.columns[i])}
        keyword_cols == {i \in 1..Len(t.columns) : IsKeywordColumn(t.columns[i])}
    IN  \/ \E i \in summary_cols, k \in 1..Len(keyword_pick) :
              StrContainsNoCase(FillNaStr(r.cells[i]), keyword_pick[k])
        \/ \E i \in keyword_cols, k \in 1..Len(keyword_pick) :
              StrContainsNoCase(FillNaStr(r.cells[i]), keyword_pick[k])

RECURSIVE MatchesPerKeyword(_, _)
MatchesPerKeyword(t, keyword_pick) ==
    IF keyword_pick = <<>> THEN <<>>
    ELSE LET Mask(r) == KeywordMask(t, <<Head(keyword_pick)>>, r)
         IN  SelectSeq(t.rows, Mask) \o MatchesPerKeyword(t, Tail(keyword_pick))

KeywordStagePerKeyword(t, keyword_pick) ==
    IF keyword_pick # <<>>
    THEN [t EXCEPT !.rows = MatchesPerKeyword(t, keyword_pick)]
    ELSE t
KeywordStageKeepsIfNoMatch(t, keyword_pick) ==
    LET Mask(r) == KeywordMask(t, keyword_pick, r)
        matched == BoolIndex(t, {i \in Index(t) : Mask(Loc(t, i))})
    IN  IF keyword_pick # <<>> /\ matched.rows # <<>> THEN matched ELSE t
KeywordStageNoGuard(t, keyword_pick) ==
    LET Mask(r) == KeywordMask(t, keyword_pick, r)
    IN  BoolIndex(t, {i \in Index(t) : Mask(Loc(t, i))})
KeywordStage(t, keyword_pick) ==
    IF keyword_pick # <<>>
    THEN LET Mask(r) == KeywordMask(t, keyword_pick, r)
         IN  BoolIndex(t, {i \in Index(t) : Mask(Loc(t, i))})
    ELSE t

DateColumnsInTableOrder(t) ==
    LET IsDateLike(c) ==
            \/ Contains(Lower(c), "created") \/ Contains(Lower(c), "date")
            \/ Lower(c) \in {"start", "end"}
    IN  SelectSeq(t.columns, IsDateLike)
\* the date column: a "created" column, else a date / start / end column
DateColumns(t) ==
    LET IsCreated(c) == Contains(Lower(c), "created")
        IsDate(c) == Contains(Lower(c), "date") \/ Lower(c) \in {"start", "end"}
        created == SelectSeq(t.columns, IsCreated)
    IN  IF created # <<>> THEN created ELSE SelectSeq(t.columns, IsDate)

DateStage(t, date_range) ==
    IF date_range[1] # None \/ date_range[2] # None
    THEN LET start == date_range[1]
             end == date_range[2]
             date_cols == DateColumns(t)
         IN  IF date_cols # <<>>
             THEN LET dc == date_cols[1]
                      \* s is computed once, on the table as the stage found it,
                      \* and both masks are aligned on the index labels
                      s == [i \in Index(t) |-> to_datetime(Cell(t, Loc(t, i), dc))]
                      FromStart == {i \in Index(t) :
                                      s[i] # NaT /\ s[i] >= to_datetime(start)}
                      ToEnd == {i \in Index(t) :
                                  s[i] # NaT /\ s[i] <= to_datetime(end)}
                      narrowed == IF start # None THEN BoolIndex(t, FromStart) ELSE t
                  IN  IF end # None THEN BoolIndex(narrowed, ToEnd) ELSE narrowed
             ELSE t
    ELSE t

\* DataFrame.apply(..., axis=1) gives one bool per row; on a table without rows
\* it gives an empty float Series, and out[that] selects no column at all
QueryStage(t, query) ==
    IF query # "" /\ Strip(query) # ""
    THEN LET q == Lower(Strip(query))
             contains(r) ==
                 \E i \in 1..Len(r.cells) : Contains(Lower(PyStr(r.cells[i])), q)
         IN  IF t.rows = <<>>
             THEN [columns |-> <<>>, rows |-> <<>>]
             ELSE BoolIndex(t, {i \in Index(t) : contains(Loc(t, i))})
    ELSE t

apply_dataframe_filters(t, c) ==
    LET out0 == t
        out1 == StatusStage(out0, c.status_pick)
        out2 == KeywordStage(out1, c.keyword_pick)
        out3 == DateStage(out2, c.date_range)
    IN  QueryStage(out3, c.query)

\* main: the table in the session, before the sidebar is drawn
FilterInit ==
    /\ df \in Tables
    /\ crit = <<>>
    /\ out = <<>>

\* main: sidebar_filters returns the criteria the user picked
sidebar_filters(c) ==
    /\ df # <<>>
    /\ crit = <<>>
    /\ crit' = c
    /\ UNCHANGED <<df, out, fetchVars, kpiVars, chatVars, appVars, viewVars>>

\* main: filtered = apply_dataframe_filters(df, status_pick, keyword_pick, ...)
ApplyFilters ==
    /\ crit # <<>>
    /\ out = <<>>
    /\ out' = apply_dataframe_filters(df, crit)
    /\ UNCHANGED <<df, crit, fetchVars, kpiVars, chatVars, appVars, viewVars>>

FetchIdle ==
    /\ OPENPYXL_AVAILABLE = TRUE
    /\ GSPREAD_AVAILABLE = FALSE
    /\ secrets = [gcp_service_account |-> FALSE, spreadsheet_key |-> None]
    /\ pc = "idle"
    /\ published_url = None
    /\ fargs = <<DefaultKey, None>>
    /\ fetched = NoEntry
    /\ ret = NoEntry
    /\ attempts = <<>>
    /\ cache = [p \in Pairs |-> NoEntry]
    /\ now = 0
    /\ loads = 0
    /\ lastRun = [p \in Pairs |-> -1]
    /\ clearedSince = [p \in Pairs |-> FALSE]

FilterNext ==
    \/ \E c \in AllCriteria : sidebar_filters(c)
    \/ ApplyFilters

InitFilter == FilterInit /\ FetchIdle /\ KpiIdle /\ ChatIdle /\ AppIdle /\ ViewIdle

SpecFilter == InitFilter /\ [][FilterNext]_vars

(***************************************************************************)
(* The fetch chain: what a finished call of load_data_with_ui did.         *)
(***************************************************************************)
Rank(s) ==
    CASE s = "xlsx" -> 1 [] s = "api" -> 2 [] s = "csv_export" -> 3
      [] s = "csv_pub" -> 4

Strategies == {"xlsx", "api", "csv_export", "csv_pub"}

Available(s) ==
    CASE s = "xlsx" -> XlsxAvailable
      [] s = "api" -> ApiAvailable
      [] OTHER -> TRUE

\* the attempt ended in an error, a bad status or an empty body
Failed(a) ==
    a.outcome \in {"ConnectionError", "HTTPError", "RuntimeError", "ParserError",
                   "Exception", "non200", "empty_body"}

AttemptedAt(s) == {i \in 1..Len(attempts) : attempts[i].strategy = s}
Attempted(s) == AttemptedAt(s) # {}
StrategyFailed(s) == \E i \in AttemptedAt(s) : Failed(attempts[i])

EveryStrategyFailed ==
    \A s \in Strategies : Available(s) => StrategyFailed(s)

\* fetch_sheet's body ran in the running call (it was not answered by the cache)
ChainRan == Attempted("api") \/ Attempted("csv_export")

\* C1: when every remote strategy of a fetch failed, load_data_with_ui returns
\* the demo dataset with a label that marks it as demo data, not a timestamp.
C1_DemoLabelWhenAllFail ==
    (pc = "done" /\ EveryStrategyFailed)
        => (ret.df = _demo_df /\ ret.last_updated = DemoLabel)

\* C2: load_data_with_ui never raises: whatever the network calls do, the call
\* can always take its next step, and it ends by returning a non-empty table
\* and a label.
C2_FetchTotal ==
    /\ pc # "raised"
    /\ pc \in {"xlsx", "resolve", "api", "csv_export", "csv_pub", "fallback", "post"}
         => ENABLED (TryXlsx \/ SkipXlsx \/ CallFetchSheet \/ TryApi \/ SkipApi
                     \/ TryCsvExport \/ TryPublishedCsv \/ DemoFallback
                     \/ ReturnFetched)
    /\ pc = "done"
         => /\ ret.df \in {Table(src, FALSE) :
                              src \in Strategies \cup {"demo"}}
            /\ ret.last_updated \in
                 {DemoLabel} \cup {TimestampLabel(t) : t \in 0..now}

\* every strategy raised or failed and the call still returned
C2_Witness ==
    /\ pc = "done"
    /\ XlsxAvailable /\ ApiAvailable
    /\ EveryStrategyFailed
    /\ \A s \in {"xlsx", "api", "csv_pub"} :
         \E i \in AttemptedAt(s) : attempts[i].outcome \in Exceptions

InOrder ==
    \A i, j \in 1..Len(attempts) :
        i < j => Rank(attempts[i].strategy) < Rank(attempts[j].strategy)

\* a strategy is attempted only after every earlier available one was attempted
EarlierAttempted ==
    \A j \in 1..Len(attempts) : \A s \in Strategies :
        (Rank(s) < Rank(attempts[j].strategy) /\ Available(s))
            => \E i \in 1..(j - 1) : attempts[i].strategy = s

\* the download parsed (XLSX), the strategy produced its table (the others)
Parsed(a) ==
    IF a.strategy = "xlsx" THEN a.outcome \in {"ok", "empty"} ELSE a.outcome = "ok"

\* C3 as stated: fixed order, a strategy only after the failure of the earlier
\* ones, and the first strategy that succeeds (XLSX: parses) ends the chain and
\* its table is returned.
C3_FirstParseReturns ==
    /\ InOrder
    /\ EarlierAttempted
    /\ \A i, j \in 1..Len(attempts) : i < j => ~Parsed(attempts[i])
    /\ pc = "done" =>
         \A i \in 1..Len(attempts) :
            Parsed(attempts[i]) =>
                ret.df.source = attempts[i].strategy

\* C3 amended: fixed order; a strategy is attempted only if every earlier one
\* was unavailable, failed, or (XLSX) parsed to an empty table; the first
\* strategy that yields a non-empty table ends the chain and that table is
\* returned.
C3_FirstNonEmptyReturns ==
    /\ InOrder
    /\ EarlierAttempted
    /\ \A i, j \in 1..Len(attempts) :
         i < j => \/ Failed(attempts[i])
                  \/ attempts[i] = Attempt("xlsx", "empty")
    /\ \A i \in 1..Len(attempts) :
         attempts[i].outcome = "ok" =>
            /\ i = Len(attempts)
            /\ pc \in {"done", "post"}
            /\ pc = "done" => ret.df = Table(attempts[i].strategy, FALSE)

\* the chain went through all four strategies and the last one's table came back
C3_Witness ==
    /\ pc = "done"
    /\ Len(attempts) = 4
    /\ attempts[1] = Attempt("xlsx", "empty")
    /\ attempts[4].outcome = "ok"
    /\ ret.df = Table("csv_pub", FALSE)

\* C4: the demo dataset comes back only after every available strategy was
\* attempted and failed; a failed CSV export is followed by the published CSV
\* endpoint, an API attempt without worksheet or rows by the CSV attempts.
C4_DemoOnlyAfterAllAttempted ==
    pc = "done" =>
        /\ ret.df = _demo_df => \A s \in Strategies : Available(s) => Attempted(s)
        /\ StrategyFailed("csv_export") => Attempted("csv_pub")
        /\ (\E i \in AttemptedAt("api") :
               attempts[i].outcome \in {"no_worksheet", "no_rows"})
             => Attempted("csv_export")

\* C5: a fetch in which every remote strategy fails creates no cache entry, so
\* the cache never holds the demo table and no call is answered with a cached
\* demo table.
C5_NoCachedDemo ==
    /\ \A p \in Pairs : cache[p].present => cache[p].df # _demo_df
    /\ (pc = "post" /\ fetched.df = _demo_df) => ChainRan

\* C6: the first call of fetch_sheet for a pair after clear_data_cache runs the
\* strategy chain, also within the TTL of the last result; without a clear and
\* within the TTL the call returns the (table, timestamp) of the last run and
\* attempts nothing.
C6_ClearForcesRefetch ==
    [][(pc = "resolve" /\ pc' # "resolve") =>
          /\ clearedSince[fargs] => pc' = "api"
          /\ (~clearedSince[fargs] /\ lastRun[fargs] >= 0
                /\ now - lastRun[fargs] < TTL)
               => /\ pc' = "post"
                  /\ fetched' = cache[fargs]
                  /\ fetched'.ts = lastRun[fargs]
                  /\ attempts' = attempts
                  /\ cache' = cache]_vars

\* the chain runs again within the TTL of the pair's last result
C6_Witness ==
    /\ pc = "api"
    /\ lastRun[fargs] >= 0
    /\ now - lastRun[fargs] < TTL

(***************************************************************************)
(* The filter composer: what apply_dataframe_filters returned.             *)
(***************************************************************************)
Filtered == crit # <<>> /\ out # <<>>

\* seq's elements are elements of the table's rows, in the table's order, each
\* at most once
IsSubsequence(rows, of) ==
    /\ \A i \in 1..Len(rows) : rows[i] \in Range(of)
    /\ \A i, j \in 1..Len(rows) : i < j => rows[i].idx < rows[j].idx

\* C7: with empty status set, empty keyword set, empty query and date range
\* (None, None) the result has exactly the table's rows in the table's order.
C7_FilterNoOp ==
    (Filtered /\ crit = EmptyCriteria) => out = df

C7_Witness ==
    /\ Filtered
    /\ crit = EmptyCriteria
    /\ Len(df.rows) >= 2
    /\ out.rows = df.rows

\* C8: the rows of the result are a subsequence of the table's rows (none added,
\* duplicated or reordered, at most as many), and the call leaves the table as
\* it was.
C8_FilterSubsequence ==
    [][(out = <<>> /\ out' # <<>>) =>
          /\ df' = df
          /\ IsSubsequence(out'.rows, df.rows)
          /\ Len(out'.rows) <= Len(df.rows)]_vars

\* a call that drops a row between two rows it keeps
C8_Witness ==
    /\ Filtered
    /\ Len(df.rows) = 3
    /\ Len(out.rows) = 2
    /\ out.rows[1].idx = 0 /\ out.rows[2].idx = 2

\* the four stages, each a function of the table and the criteria
Stage(n, t, c) ==
    CASE n = 1 -> StatusStage(t, c.status_pick)
      [] n = 2 -> KeywordStage(t, c.keyword_pick)
      [] n = 3 -> DateStage(t, c.date_range)
      [] n = 4 -> QueryStage(t, c.query)

\* every order of the four stages, applied to t one after another, gives result
EveryOrderGives(t, c, result) ==
    \A n1 \in 1..4 :
        LET t1 == Stage(n1, t, c) IN
        \A n2 \in 1..4 \ {n1} :
            LET t2 == Stage(n2, t1, c) IN
            \A n3 \in 1..4 \ {n1, n2} :
                LET t3 == Stage(n3, t2, c) IN
                \A n4 \in 1..4 \ {n1, n2, n3} :
                    Stage(n4, t3, c).rows = result.rows

\* the rows of t that each stage, applied alone to t, keeps
Intersection(t, c) ==
    LET kept == [n \in 1..4 |-> Range(Stage(n, t, c).rows)]
        InAll(r) == \A n \in 1..4 : r \in kept[n]
    IN  BoolIndex(t, {i \in Index(t) : InAll(Loc(t, i))})

InferredStatusColumns(t) ==
    LET IsStatus(c) == Lower(c) = "status" IN SelectSeq(t.columns, IsStatus)

\* C10: with a non-empty status set (and nothing else) the result holds exactly
\* the rows whose status, as a string, is in the set, the status column being
\* the column whose lower-cased name is "status"; the stage is a no-op only for
\* a table without such a column.
C10_StatusByLowercasedName ==
    (Filtered /\ crit.status_pick # <<>>
        /\ crit = Criteria(crit.status_pick, <<>>, "", <<None, None>>))
    => LET cols == InferredStatusColumns(df)
           InSet(r) == PyStr(Cell(df, r, cols[1])) \in Range(crit.status_pick)
       IN  out = IF cols # <<>> THEN BoolIndex(df, {i \in Index(df) : InSet(Loc(df, i))}) ELSE df

(***************************************************************************)
(* Tables for the date stage: the date column at different places, under   *)
(* different names, or missing.                                            *)
(***************************************************************************)
DateSchemas ==
    { <<"Status", "Summary", "Created">>,
      <<"Project", "Due Date", "Created At">>,
      <<"START", "End", "Notes">>,
      <<"Updated", "Restart", "date_closed">>,
      <<"Project", "Owner", "Notes">> }

DateRowPool ==
    { <<"2025-10-01", "2025-12-15", "2025-08-15">>,
      <<"2025-12-15", "2025-08-15", "2025-10-01">>,
      <<"2025-08-15", "2025-10-01", "2025-12-15">>,
      <<"n/a", NaN, "n/a">> }

DateTables ==
    {MakeTable(cols, cells) :
        cols \in DateSchemas,
        cells \in UNION {[1..n -> DateRowPool] : n \in 0..MaxRows}}

InitDates ==
    /\ df \in DateTables
    /\ crit = <<>>
    /\ out = <<>>
    /\ FetchIdle /\ KpiIdle /\ ChatIdle /\ AppIdle /\ ViewIdle

SpecDates == InitDates /\ [][FilterNext]_vars

(***************************************************************************)
(* The keyword stage and the date stage, each on its own.                  *)
(***************************************************************************)
OnlyKeywords ==
    /\ Filtered
    /\ crit.keyword_pick # <<>>
    /\ crit.status_pick = <<>> /\ crit.query = ""
    /\ crit.date_range = <<None, None>>

\* the text of a cell: a missing value has none
CellText(v) == IF v = NaN THEN "" ELSE v

\* a selected keyword occurs, whatever the case, in the row's cell of a
\* summary / description column or of a client / keyword column
RowHasKeyword(t, r, keywords) ==
    \E i \in 1..Len(t.columns), k \in Range(keywords) :
        /\ \E w \in {"summary", "description", "client", "customer", "account",
                      "keyword", "tag"} :
              ContainsByScan(LowerByChar(t.columns[i]), w)
        /\ ContainsByScan(LowerByChar(CellText(r.cells[i])), LowerByChar(k))

\* C11: with a non-empty keyword set a row is kept if and only if a selected
\* keyword is a case-insensitive substring of its cell in a summary or
\* description column or in a client / keyword column; "ACME" on a Summary
\* of "Ticket for ACME client" in row 0 and other text elsewhere gives row 0.
C11_KeywordKeepsMatchingRows ==
    OnlyKeywords =>
        /\ out.columns = df.columns
        /\ out.rows =
             SelectSeq(df.rows, LAMBDA r : RowHasKeyword(df, r, crit.keyword_pick))
        /\ ( /\ crit.keyword_pick = <<"ACME">>
             /\ df.columns = <<"Status", "Summary", "Created">>
             /\ Len(df.rows) = 3
             /\ df.rows[1].cells[2] = "Ticket for ACME client"
             /\ df.rows[2].cells[2] = "Globex; Initech"
             /\ df.rows[3].cells[2] = NaN )
            => out.rows = <<df.rows[1]>>

\* keywords of either case select the lower-case and the upper-case mention
C11_Witness ==
    /\ OnlyKeywords
    /\ crit.keyword_pick = <<"ACME">>
    /\ df.columns = <<"Status", "Summary", "Created">>
    /\ Len(df.rows) = 3
    /\ df.rows[1].cells[2] = "Ticket for ACME client"
    /\ df.rows[2].cells[2] = "acme renewal"
    /\ df.rows[3].cells[2] = "Globex; Initech"
    /\ out.rows = <<df.rows[1], df.rows[2]>>

OnlyDates ==
    /\ Filtered
    /\ crit.date_range # <<None, None>>
    /\ crit.status_pick = <<>> /\ crit.keyword_pick = <<>> /\ crit.query = ""

\* the position of the date column: the first column whose name contains
\* "created", else the first whose name contains "date" or is "start" / "end";
\* 0 when there is none
ResolvedDateColumn(t) ==
    LET name(i) == LowerByChar(t.columns[i])
        created == {i \in 1..Len(t.columns) : ContainsByScan(name(i), "created")}
        dated == {i \in 1..Len(t.columns) :
                    \/ ContainsByScan(name(i), "date")
                    \/ name(i) = "start" \/ name(i) = "end"}
        First(S) == CHOOSE i \in S : \A j \in S : i <= j
    IN  IF created # {} THEN First(created)
        ELSE IF dated # {} THEN First(dated) ELSE 0

\* the cell is a date within the bounds that are given, the bounds included
InDateRange(v, date_range) ==
    LET d == ParseIsoDate(v)
    IN  /\ d # NaT
        /\ date_range[1] # None => d >= ParseIsoDate(date_range[1])
        /\ date_range[2] # None => d <= ParseIsoDate(date_range[2])

\* C12: with a bound given, the date column is the first "created" column,
\* else the first "date" / start / end column; a row is kept iff its cell is a
\* date not before start and not after end (bounds included), a row without a
\* date is dropped, and without a date column every row is kept. Created =
\* 2025-08-15, 2025-10-01, 2025-12-15 with 2025-09-01 .. 2025-12-01 keeps the
\* 2025-10-01 row.
C12_DateRangeKeepsRowsInRange ==
    OnlyDates =>
        LET c == ResolvedDateColumn(df)
        IN  /\ out.columns = df.columns
            /\ out.rows =
                 IF c = 0 THEN df.rows
                 ELSE SelectSeq(df.rows,
                                LAMBDA r : InDateRange(r.cells[c], crit.date_range))
            /\ ( /\ crit.date_range = <<"2025-09-01", "2025-12-01">>
                 /\ df.columns = <<"Status", "Summary", "Created">>
                 /\ [i \in 1..Len(df.rows) |-> df.rows[i].cells[3]]
                      = <<"2025-08-15", "2025-10-01", "2025-12-15">> )
                => out.rows = <<df.rows[2]>>

\* a created column after a due date column decides; the bound itself is kept
\* and the row without a date is dropped
C12_Witness ==
    /\ OnlyDates
    /\ crit.date_range = <<"2025-10-01", None>>
    /\ df.columns = <<"Project", "Due Date", "Created At">>
    /\ Len(df.rows) = 3
    /\ df.rows[1].cells = <<"2025-12-15", "2025-08-15", "2025-10-01">>
    /\ df.rows[2].cells = <<"n/a", NaN, "n/a">>
    /\ df.rows[3].cells = <<"2025-10-01", "2025-12-15", "2025-08-15">>
    /\ out.rows = <<df.rows[1]>>

(***************************************************************************)
(* app.py: kpi_area                                                        *)
(***************************************************************************)
\* for col in df.columns: if col.lower() == "status": status_col = col; break
KpiStatusColumn(t) ==
    LET matching == {i \in 1..Len(t.columns) : Lower(t.columns[i]) = "status"}
    IN  IF matching = {} THEN None
        ELSE t.columns[CHOOSE i \in matching : \A j \in matching : i <= j]

\* the values of the four buckets
ActiveStatuses == {"active", "ongoing"}
InProgressStatuses == {"in progress", "in-progress", "inprogress"}
CompletedStatuses == {"done", "completed", "closed", "finished"}
PendingStatusesWithInProgress ==
    {"pending", "backlog", "todo", "paused", "blocked", "in progress"}
PendingStatuses == {"pending", "backlog", "todo", "paused", "blocked"}

\* df[status_col].astype(str).str.strip().str.lower().isin(values).sum()
KpiCount(t, col, values) ==
    Cardinality({i \in 1..Len(t.rows) :
                    Lower(Strip(PyStr(Cell(t, t.rows[i], col)))) \in values})

\* the numbers kpi_area puts in its four metrics (the "% of total" text under
\* the active metric is derived from active_count and total)
KpiMetrics(t) ==
    LET status_col == KpiStatusColumn(t)
        active_count ==
            IF status_col # None THEN KpiCount(t, status_col, ActiveStatuses) ELSE 0
        in_progress_count ==
            IF status_col # None THEN KpiCount(t, status_col, InProgressStatuses)
            ELSE 0
        completed_count ==
            IF status_col # None THEN KpiCount(t, status_col, CompletedStatuses)
            ELSE 0
        pending_count ==
            IF status_col # None THEN KpiCount(t, status_col, PendingStatuses) ELSE 0
    IN  [total |-> Len(t.rows),
         active_count |-> active_count,
         in_progress_count |-> in_progress_count,
         completed_count |-> completed_count,
         pending_count |-> pending_count,
         pending_in_progress |-> pending_count + in_progress_count]

\* main: kpi_area(filtered)
kpi_area ==
    /\ out # <<>>
    /\ kpi = <<>>
    /\ kpi' = KpiMetrics(out)
    /\ UNCHANGED <<analysis, fetchVars, filterVars, chatVars, appVars, viewVars>>

(***************************************************************************)
(* components/local_chat.py: analyze_data_for_chat                         *)
(*                                                                         *)
(* An answer is its text with the numbers left out, and the numbers: a     *)
(* list of <<label, number>>. An instant is <<day, second of the day>>.    *)
(***************************************************************************)
Answer(text, numbers) == [text |-> text, numbers |-> numbers]

Instants == {<<20251001, 0>>, <<20251001, 36000>>}

NoRoles ==
    [status_col |-> None, assignee_col |-> None, priority_col |-> None,
     created_col |-> None, due_col |-> None]

\* for col in df.columns: ... ; every match overwrites the one before
RECURSIVE ScanColumns(_, _)
ScanColumns(columns, found) ==
    IF columns = <<>> THEN found
    ELSE LET col == Head(columns)
             c_lower == Lower(col)
             next ==
                 IF c_lower = "status" THEN [found EXCEPT !.status_col = col]
                 ELSE IF c_lower = "assignee"
                 THEN [found EXCEPT !.assignee_col = col]
                 ELSE IF Contains(c_lower, "priority") \/ Contains(c_lower, "severity")
                 THEN [found EXCEPT !.priority_col = col]
                 ELSE IF Contains(c_lower, "created")
                 THEN [found EXCEPT !.created_col = col]
                 ELSE IF Contains(c_lower, "due")
                 THEN [found EXCEPT !.due_col = col]
                 ELSE found
         IN  ScanColumns(Tail(columns), next)

\* any(word in q_lower for word in words)
AnyWord(q_lower, words) == \E word \in words : Contains(q_lower, word)

\* df[status_col].astype(str).str.lower().isin(values).sum()
ChatCount(t, col, values) ==
    Cardinality({i \in 1..Len(t.rows) :
                    Lower(PyStr(Cell(t, t.rows[i], col))) \in values})

\* df[col].value_counts(): the values that are not missing with the number of
\* their rows, the most frequent first, equal counts in the order of their
\* first row
value_counts(t, col) ==
    LET cell(i) == Cell(t, t.rows[i], col)
        present == {i \in 1..Len(t.rows) : cell(i) # NaN}
        first == {i \in present : \A j \in present : cell(j) = cell(i) => i <= j}
        count(i) == Cardinality({j \in present : cell(j) = cell(i)})
        before(i, j) == count(i) > count(j) \/ (count(i) = count(j) /\ i < j)
        rank(i) == 1 + Cardinality({j \in first : before(j, i)})
    IN  [k \in 1..Cardinality(first) |->
            LET i == CHOOSE i \in first : rank(i) = k
            IN  <<cell(i), count(i)>>]

\* Series.head(n)
head(counts, n) == SubSeq(counts, 1, IF Len(counts) < n THEN Len(counts) ELSE n)

\* df_copy[df_copy["due_dt"] < pd.Timestamp(now)]: the rows due before the
\* instant that datetime.now() gave
Overdue(t, due_col, instant) ==
    {i \in 1..Len(t.rows) :
        LET due_dt == to_datetime(Cell(t, t.rows[i], due_col))
        IN  /\ due_dt # NaT
            /\ due_dt < instant[1] \/ (due_dt = instant[1] /\ 0 < instant[2])}

\* the numbers of the status buckets that the Summary answer shows
SummaryNumbers(t, cols) ==
    LET total == Len(t.rows)
        in_progress ==
            ChatCount(t, cols.status_col,
                      {"in progress", "in-progress", "inprogress"})
        completed ==
            ChatCount(t, cols.status_col, {"done", "completed", "closed", "finished"})
        pending ==
            ChatCount(t, cols.status_col,
                      {"pending", "backlog", "todo", "paused", "blocked"})
        top_assignee ==
            IF cols.assignee_col # None
            THEN head(value_counts(t, cols.assignee_col), 1)
            ELSE <<>>
    IN  <<<<"total", total>>>>
          \o (IF total > 0
              THEN << <<"in_progress", in_progress>>, <<"completed", completed>>,
                      <<"pending", pending>> >>
              ELSE <<>>)
          \o top_assignee

\* an engine that remembers: nothing said yet, it gives the general hint,
\* later it refers to what it said
analyze_remembering(t, question, instant) ==
    IF session_state[LocalChatKey] = <<>>
    THEN Answer("I can help you analyze the **{total}** tickets in the dashboard.",
                <<<<"total", Len(t.rows)>>>>)
    ELSE Answer("As I said before.", <<>>)
analyze_data_for_chat(t, question, instant) ==
    LET q_lower == Lower(question)
        cols == ScanColumns(t.columns, NoRoles)
        status_col == cols.status_col
        total == Len(t.rows)
        \* the return at the end of the function, reached by every path that
        \* returned nothing
        Default ==
            Answer("I can help you analyze the **{total}** tickets in the dashboard.",
                   <<<<"total", total>>>>)
    IN  IF AnyWord(q_lower, {"how many", "count", "total", "number of"})
        THEN IF Contains(q_lower, "in progress") \/ Contains(q_lower, "progress")
             THEN IF status_col # None
                  THEN Answer("There are **{in_progress}** tickets currently in progress.",
                              <<<<"in_progress",
                                  ChatCount(t, status_col,
                                            {"in progress", "in-progress",
                                             "inprogress"})>>>>)
                  ELSE Default
             ELSE IF Contains(q_lower, "completed") \/ Contains(q_lower, "done")
             THEN IF status_col # None
                  THEN Answer("There are **{completed}** completed tickets.",
                              <<<<"completed",
                                  ChatCount(t, status_col,
                                            {"done", "completed", "closed",
                                             "finished"})>>>>)
                  ELSE Default
             ELSE IF Contains(q_lower, "pending")
             THEN IF status_col # None
                  THEN Answer("There are **{pending}** pending tickets.",
                              <<<<"pending",
                                  ChatCount(t, status_col,
                                            {"pending", "backlog", "todo", "paused",
                                             "blocked"})>>>>)
                  ELSE Default
             ELSE IF Contains(q_lower, "active")
             THEN IF status_col # None
                  THEN Answer("There are **{active}** active tickets.",
                              <<<<"active",
                                  ChatCount(t, status_col, {"active", "ongoing"})>>>>)
                  ELSE Default
             ELSE IF Contains(q_lower, "blocked")
             THEN IF status_col # None
                  THEN Answer("There are **{blocked}** blocked tickets.",
                              <<<<"blocked", ChatCount(t, status_col, {"blocked"})>>>>)
                  ELSE Default
             ELSE Answer("There are **{total}** tickets in total.",
                         <<<<"total", total>>>>)
        ELSE IF AnyWord(q_lower, {"who", "assignee", "assigned", "owner"})
        THEN IF cols.assignee_col # None
             THEN LET assignee_counts == head(value_counts(t, cols.assignee_col), 5)
                  IN  IF Len(assignee_counts) > 0
                      THEN Answer("Top assignees:", assignee_counts)
                      ELSE Answer("No assignee information available.", <<>>)
             ELSE Answer("Assignee column not found in the data.", <<>>)
        ELSE IF AnyWord(q_lower, {"status", "statuses", "states"})
        THEN IF status_col # None
             THEN Answer("Status distribution:", value_counts(t, status_col))
             ELSE Answer("Status column not found.", <<>>)
        ELSE IF AnyWord(q_lower, {"priority", "priorities", "severity"})
        THEN IF cols.priority_col # None
             THEN Answer("Priority breakdown:", value_counts(t, cols.priority_col))
             ELSE Answer("Priority column not found in the data.", <<>>)
        ELSE IF AnyWord(q_lower, {"overdue", "late", "past due"})
        THEN IF cols.due_col # None /\ cols.created_col # None
             THEN LET overdue == Overdue(t, cols.due_col, instant)
                  IN  IF Cardinality(overdue) > 0
                      THEN Answer("There are **{len(overdue)}** overdue tickets (past their due date).",
                                  <<<<"overdue", Cardinality(overdue)>>>>)
                      ELSE Answer("No overdue tickets found.", <<>>)
             ELSE Answer("Due date column not found.", <<>>)
        ELSE IF AnyWord(q_lower, {"summary", "overview", "insights"})
        THEN IF status_col # None
             THEN Answer("**Dashboard Summary:**", SummaryNumbers(t, cols))
             ELSE Answer("Unable to generate summary - status column not found.", <<>>)
        ELSE IF AnyWord(q_lower, {"help", "what can", "questions"})
        THEN Answer("**I can answer questions about:**", <<>>)
        ELSE Default

\* a call analyze_data_for_chat(filtered, question), further down the page
\* than kpi_area
Analyze(question, instant) ==
    /\ out # <<>>
    /\ kpi # <<>>
    /\ analysis = <<>>
    /\ analysis' =
         [question |-> question,
          cols |-> ScanColumns(out.columns, NoRoles),
          answer |-> analyze_data_for_chat(out, question, instant)]
    /\ UNCHANGED <<kpi, fetchVars, filterVars, chatVars, appVars, viewVars>>

\* main after the filters, with the sidebar at its defaults: the filtered
\* table is the session's table
KpiInit ==
    /\ df \in KpiTables
    /\ crit = EmptyCriteria
    /\ out = df

KpiNext ==
    \/ kpi_area
    \/ \E question \in Questions, instant \in Instants : Analyze(question, instant)

InitKpi == KpiInit /\ FetchIdle /\ KpiIdle /\ ChatIdle /\ AppIdle /\ ViewIdle

SpecKpi == InitKpi /\ [][KpiNext]_vars

(***************************************************************************)
(* The status buckets.                                                     *)
(***************************************************************************)
Buckets ==
    {ActiveStatuses, InProgressStatuses, CompletedStatuses, PendingStatuses}

\* the status strings of a table's column, as kpi_area reads them
StatusValues(t, col) ==
    {Lower(Strip(PyStr(Cell(t, t.rows[i], col)))) : i \in 1..Len(t.rows)}

\* C13: a status string is in at most one of the buckets active, in-progress,
\* completed, pending, so the four counts of kpi_area add up to at most the
\* number of rows; Status = Active, done, Pending, In Progress gives 1, 1, 1,
\* 1 of 4.
C13_BucketsDisjoint ==
    kpi # <<>> =>
        /\ kpi.total = Len(out.rows)
        /\ kpi.active_count + kpi.in_progress_count + kpi.completed_count
              + kpi.pending_count <= kpi.total
        /\ \A a, b \in Buckets : a # b => a \cap b = {}
        /\ \A col \in Range(out.columns) : \A v \in StatusValues(out, col) :
              Cardinality({b \in Buckets : v \in b}) <= 1
        /\ ( /\ out.columns[1] = "Status"
             /\ [i \in 1..Len(out.rows) |-> out.rows[i].cells[1]]
                  = <<"Active", "done", "Pending", "In Progress">> )
            => /\ kpi.active_count = 1 /\ kpi.completed_count = 1
               /\ kpi.pending_count = 1 /\ kpi.in_progress_count = 1
               /\ kpi.total = 4

\* every row is in a bucket, each bucket has one
C13_Witness ==
    /\ kpi # <<>>
    /\ out.columns = <<"Status", "Assignee", "Due Date">>
    /\ [i \in 1..Len(out.rows) |-> out.rows[i].cells[1]]
         = <<"Active", "done", "Pending", "In Progress">>
    /\ kpi.active_count + kpi.in_progress_count + kpi.completed_count
          + kpi.pending_count = 4

\* the question is a Count question about the bucket
AsksCountOf(question, bucket) ==
    LET q == Lower(question)
    IN  /\ \E w \in {"how many", "count", "total", "number of"} : Contains(q, w)
        /\ \E w \in CASE bucket = "active" -> {"active"}
                      [] bucket = "in_progress" -> {"in progress"}
                      [] bucket = "completed" -> {"completed", "done"}
                      [] bucket = "pending" -> {"pending"} :
              Contains(q, w)

KpiCountOf(bucket) ==
    CASE bucket = "active" -> kpi.active_count
      [] bucket = "in_progress" -> kpi.in_progress_count
      [] bucket = "completed" -> kpi.completed_count
      [] bucket = "pending" -> kpi.pending_count

\* C14: for each bucket, the number analyze_data_for_chat reports for a Count
\* question about the bucket is the number kpi_area shows for that bucket on
\* the same table, both matching the trimmed status whatever its case.
C14_ChatCountsEqualKpi ==
    (kpi # <<>> /\ analysis # <<>>) =>
        \A bucket \in {"active", "in_progress", "completed", "pending"} :
            AsksCountOf(analysis.question, bucket)
                => analysis.answer.numbers = <<<<bucket, KpiCountOf(bucket)>>>>

(***************************************************************************)
(* The roles of the columns.                                               *)
(***************************************************************************)
Roles == {"status_col", "assignee_col", "priority_col", "created_col", "due_col"}

\* the column's name matches the role
MatchesRole(col, role) ==
    LET name == Lower(col)
    IN  CASE role = "status_col" -> name = "status"
          [] role = "assignee_col" -> name = "assignee"
          [] role = "priority_col" ->
                Contains(name, "priority") \/ Contains(name, "severity")
          [] role = "created_col" -> Contains(name, "created")
          [] role = "due_col" -> Contains(name, "due")

\* the first column in table order that matches the role, None without one
FirstMatching(t, role) ==
    LET matching == {i \in 1..Len(t.columns) : MatchesRole(t.columns[i], role)}
    IN  IF matching = {} THEN None
        ELSE t.columns[CHOOSE i \in matching : \A j \in matching : i <= j]

\* C15: when several columns match a single-valued role (status, assignee,
\* priority, created date, due date), analyze_data_for_chat resolves the role
\* to the first of them in table order, in every call on the table.
C15_FirstMatchingColumnWins ==
    analysis # <<>> =>
        \A role \in Roles : analysis.cols[role] = FirstMatching(out, role)

(***************************************************************************)
(* The intents of the query engine.                                        *)
(***************************************************************************)
IntentOrder ==
    <<"count", "assignee", "status", "priority", "overdue", "summary", "help">>

Triggers(intent) ==
    CASE intent = "count" -> {"how many", "count", "total", "number of"}
      [] intent = "assignee" -> {"who", "assignee", "assigned", "owner"}
      [] intent = "status" -> {"status", "statuses", "states"}
      [] intent = "priority" -> {"priority", "priorities", "severity"}
      [] intent = "overdue" -> {"overdue", "late", "past due"}
      [] intent = "summary" -> {"summary", "overview", "insights"}
      [] intent = "help" -> {"help", "what can", "questions"}

\* the intents whose trigger occurs in the lower-cased question, by position
Triggered(question) ==
    {i \in 1..Len(IntentOrder) :
        \E w \in Triggers(IntentOrder[i]) : Contains(Lower(question), w)}

\* the earliest intent whose trigger occurs, "fallback" when none does
FirstIntent(question) ==
    LET hit == Triggered(question)
    IN  IF hit = {} THEN "fallback"
        ELSE IntentOrder[CHOOSE i \in hit : \A j \in hit : i <= j]

\* the intent whose answer the text is
IntentOf(text) ==
    CASE text \in {"There are **{in_progress}** tickets currently in progress.",
                   "There are **{completed}** completed tickets.",
                   "There are **{pending}** pending tickets.",
                   "There are **{active}** active tickets.",
                   "There are **{blocked}** blocked tickets.",
                   "There are **{total}** tickets in total."} -> "count"
      [] text \in {"Top assignees:", "No assignee information available.",
                   "Assignee column not found in the data."} -> "assignee"
      [] text \in {"Status distribution:", "Status column not found."} -> "status"
      [] text \in {"Priority breakdown:",
                   "Priority column not found in the data."} -> "priority"
      [] text \in {"There are **{len(overdue)}** overdue tickets (past their due date).",
                   "No overdue tickets found.",
                   "Due date column not found."} -> "overdue"
      [] text \in {"**Dashboard Summary:**",
                   "Unable to generate summary - status column not found."}
            -> "summary"
      [] text = "**I can answer questions about:**" -> "help"
      [] text = "I can help you analyze the **{total}** tickets in the dashboard."
            -> "fallback"

\* C16: the answer is the answer of the first intent, in the order Count,
\* Assignee, Status distribution, Priority breakdown, Overdue, Summary, Help,
\* whose trigger occurs in the lower-cased question, and it is the Fallback
\* hint with the total exactly when no trigger occurs.
C16_FirstIntentAnswers ==
    analysis # <<>> =>
        /\ IntentOf(analysis.answer.text) = FirstIntent(analysis.question)
        /\ IntentOf(analysis.answer.text) = "fallback"
              => analysis.answer.numbers = <<<<"total", Len(out.rows)>>>>

\* the sub-keywords of a Count question, in the order they are looked for,
\* each with the bucket it names
SubKeywords ==
    << <<{"in progress"}, InProgressStatuses>>,
       <<{"completed", "done"}, CompletedStatuses>>,
       <<{"pending"}, PendingStatuses>>,
       <<{"active"}, ActiveStatuses>>,
       <<{"blocked"}, {"blocked"}>> >>

MatchedSubKeywords(question) ==
    {i \in 1..Len(SubKeywords) :
        \E w \in SubKeywords[i][1] : Contains(Lower(question), w)}

\* the number of rows whose status, trimmed and lower-cased, is in the bucket
RowsInBucket(t, bucket) ==
    LET col == FirstMatching(t, "status_col")
    IN  IF col = None THEN 0
        ELSE Cardinality({i \in 1..Len(t.rows) :
                Lower(Strip(PyStr(Cell(t, t.rows[i], col)))) \in bucket})

\* C17: the answer to a Count question reports the number of rows whose status
\* is in the bucket that the matched sub-keyword names, and the total number
\* of rows when no sub-keyword matches; "How many tickets are in progress?"
\* with 2 rows in progress and 3 others is answered with 2.
C17_CountReportsBucket ==
    (analysis # <<>> /\ FirstIntent(analysis.question) = "count") =>
        LET matched == MatchedSubKeywords(analysis.question)
            first == CHOOSE i \in matched : \A j \in matched : i <= j
        IN  /\ Len(analysis.answer.numbers) = 1
            /\ analysis.answer.numbers[1][2] =
                 IF matched = {} THEN Len(out.rows)
                 ELSE RowsInBucket(out, SubKeywords[first][2])

\* the roles whose column the answer to the question is computed from
NeededRoles(question) ==
    LET intent == FirstIntent(question)
    IN  CASE intent = "count" ->
                IF MatchedSubKeywords(question) # {} THEN {"status_col"} ELSE {}
          [] intent = "assignee" -> {"assignee_col"}
          [] intent = "status" -> {"status_col"}
          [] intent = "priority" -> {"priority_col"}
          [] intent = "overdue" -> {"due_col", "created_col"}
          [] intent = "summary" -> {"status_col"}
          [] OTHER -> {}

\* the roles whose column the text reports as not found (the Overdue answer
\* has one text for a missing due date and a missing created date)
ReportedMissing(text) ==
    CASE text \in {"Status column not found.",
                   "Unable to generate summary - status column not found."}
            -> {"status_col"}
      [] text = "Assignee column not found in the data." -> {"assignee_col"}
      [] text = "Priority column not found in the data." -> {"priority_col"}
      [] text = "Due date column not found." -> {"due_col", "created_col"}
      [] OTHER -> {}

\* C18: when the table has no column for a role that the question needs
\* (status, assignee, priority, created date, due date), analyze_data_for_chat
\* answers with a text that names a missing column, also for a Count question
\* with a status sub-keyword on a table without a status column.
C18_MissingRoleIsNamed ==
    analysis # <<>> =>
        LET missing == {role \in NeededRoles(analysis.question) :
                            FirstMatching(out, role) = None}
        IN  missing # {} => ReportedMissing(analysis.answer.text) \cap missing # {}

(***************************************************************************)
(* components/local_chat.py: local_chat_ui, components/ai_chat.py: chat_ui *)
(*                                                                         *)
(* A message is [role, content]; a content is a text with its numbers (a   *)
(* user's message and a remote answer have none).                          *)
(***************************************************************************)
Message(role, content) == [role |-> role, content |-> content]

Text(string) == Answer(string, <<>>)

\* what happened in a chat: who, what, the messages it produced, and the
\* table and the instant it happened with
Event(chat, kind, said, instant) ==
    [chat |-> chat, kind |-> kind, said |-> said, table |-> out,
     instant |-> instant]

\* the table of the session, the filters the user switches between, the
\* questions typed into the chats, what ask_ai does
ChatTables ==
    { MakeTable(<<"Created", "Status", "Due">>,
                << <<"Active", " Done ", "2025-10-01">>,
                   <<"In Progress", "in progress", NaN>> >>) }

ChatCriteria == {EmptyCriteria, Criteria(<<"in progress">>, <<>>, "", <<None, None>>)}

ChatQuestions == {"How many tickets are in progress?", "anything late", "hello"}

AskAiOutcomes == {"Two tickets are in progress.", "RuntimeError"}

ChatInit ==
    /\ df \in ChatTables
    /\ crit = EmptyCriteria
    /\ out = df
    /\ kpi = <<>> /\ analysis = <<>>
    /\ session_state = [k \in ChatKeys |-> <<>>]
    /\ openrouter_key \in BOOLEAN
    /\ turns = <<>>

\* main: the user changes the filters, the page is run again and the chats
\* get the newly filtered table
ChangeFilters(c) ==
    /\ c # crit
    /\ crit' = c
    /\ out' = apply_dataframe_filters(df, c)
    /\ UNCHANGED <<df, fetchVars, kpiVars, chatVars, appVars, viewVars>>

\* the two messages a question adds to the rule-based history
LocalTurn(t, user_msg, instant) ==
    <<Message("user", Text(user_msg)),
      Message("assistant", analyze_data_for_chat(t, user_msg, instant))>>

\* local_chat_ui with a message typed: the message and the answer are appended
local_chat_ui(user_msg, instant) ==
    /\ Len(turns) < MaxTurns
    /\ session_state' =
         [session_state EXCEPT
            ![LocalChatKey] = @ \o LocalTurn(out, user_msg, instant)]
    /\ turns' =
         Append(turns,
                Event("local", "message", LocalTurn(out, user_msg, instant), instant))
    /\ UNCHANGED <<openrouter_key, fetchVars, filterVars, kpiVars, appVars, viewVars>>

\* local_chat_ui: the Clear Chat button
ClearLocalChat ==
    /\ Len(turns) < MaxTurns
    /\ session_state' = [session_state EXCEPT ![LocalChatKey] = <<>>]
    /\ turns' = Append(turns, Event("local", "clear", <<>>, <<0, 0>>))
    /\ UNCHANGED <<openrouter_key, fetchVars, filterVars, kpiVars, appVars, viewVars>>

\* a chat_ui that starts the conversation again when ask_ai raised
chat_ui_forgetting(user_msg, outcome) ==
    /\ openrouter_key
    /\ Len(turns) < MaxTurns
    /\ LET said ==
               IF outcome = "RuntimeError"
               THEN <<Message("user", Text(user_msg))>>
               ELSE <<Message("user", Text(user_msg)),
                      Message("assistant", Text(outcome))>>
       IN  /\ session_state' =
                [session_state EXCEPT
                   ![AiChatKey] = IF outcome = "RuntimeError" THEN said
                                  ELSE @ \o said]
           /\ turns' = Append(turns, Event("ai", "message", said, <<0, 0>>))
    /\ UNCHANGED <<openrouter_key, fetchVars, filterVars, kpiVars, appVars, viewVars>>

\* chat_ui with a message typed: the message is appended, and the answer is
\* unless ask_ai raised; without an API key chat_ui returns before its input
chat_ui(user_msg, outcome) ==
    /\ openrouter_key
    /\ Len(turns) < MaxTurns
    /\ LET said ==
               IF outcome = "RuntimeError"
               THEN <<Message("user", Text(user_msg))>>
               ELSE <<Message("user", Text(user_msg)),
                      Message("assistant", Text(outcome))>>
       IN  /\ session_state' = [session_state EXCEPT ![AiChatKey] = @ \o said]
           /\ turns' = Append(turns, Event("ai", "message", said, <<0, 0>>))
    /\ UNCHANGED <<openrouter_key, fetchVars, filterVars, kpiVars, appVars, viewVars>>

\* chat_ui: the Clear Chat button
ClearAiChat ==
    /\ openrouter_key
    /\ Len(turns) < MaxTurns
    /\ session_state' = [session_state EXCEPT ![AiChatKey] = <<>>]
    /\ turns' = Append(turns, Event("ai", "clear", <<>>, <<0, 0>>))
    /\ UNCHANGED <<openrouter_key, fetchVars, filterVars, kpiVars, appVars, viewVars>>

ChatNext ==
    \/ \E c \in ChatCriteria : ChangeFilters(c)
    \/ \E user_msg \in ChatQuestions, instant \in Instants :
          local_chat_ui(user_msg, instant)
    \/ ClearLocalChat
    \/ \E user_msg \in ChatQuestions, outcome \in AskAiOutcomes :
          chat_ui(user_msg, outcome)
    \/ ClearAiChat

InitChat == ChatInit /\ FetchIdle /\ AppIdle /\ ViewIdle

SpecChat == InitChat /\ [][ChatNext]_vars

\* what a chat said since its last clear, in the order it was said
RECURSIVE SaidSinceClear(_, _)
SaidSinceClear(log, chat) ==
    IF log = <<>> THEN <<>>
    ELSE LET e == log[Len(log)]
             earlier == SubSeq(log, 1, Len(log) - 1)
         IN  IF e.chat # chat THEN SaidSinceClear(earlier, chat)
             ELSE IF e.kind = "clear" THEN <<>>
             ELSE SaidSinceClear(earlier, chat) \o e.said

\* C19: after any sequence of rule-based messages, remote-AI messages and
\* clears, each history holds exactly the turns of its own chat since its own
\* last clear, in the order they were produced: no turn of the other chat is
\* in it, and a clear of the other chat took nothing from it.
C19_HistoriesIndependent ==
    /\ session_state[LocalChatKey] = SaidSinceClear(turns, "local")
    /\ session_state[AiChatKey] = SaidSinceClear(turns, "ai")

\* both chats spoke, then the rule-based chat was cleared: the remote-AI
\* history still holds its turn
C19_Witness ==
    /\ Len(turns) = 3
    /\ turns[1].chat = "local" /\ turns[1].kind = "message"
    /\ turns[2].chat = "ai" /\ turns[2].kind = "message"
    /\ turns[3].chat = "local" /\ turns[3].kind = "clear"
    /\ session_state[LocalChatKey] = <<>>
    /\ session_state[AiChatKey] = turns[2].said

\* the rule-based chat answered in this step
LocalAnswered ==
    /\ Len(turns') = Len(turns) + 1
    /\ turns'[Len(turns')].chat = "local"
    /\ turns'[Len(turns')].kind = "message"

\* the questions whose answer reads the clock
OverdueQuestion(question) == AnyWord(Lower(question), {"overdue", "late", "past due"})

\* C20: the answer of the rule-based engine is a function of the filtered
\* table and the question (and of the instant for an Overdue question): it is
\* the answer given to the same question on the same table earlier in the
\* session, whatever was asked, answered or cleared in between, and the step
\* that computes it leaves the table and the remote-AI history as they were
\* and adds to the rule-based history the question and the answer only.
C20_EngineStateless ==
    [][LocalAnswered =>
          LET now_turn == turns'[Len(turns')]
              question == now_turn.said[1].content.text
          IN  /\ \A i \in 1..Len(turns) :
                    (/\ turns[i].chat = "local" /\ turns[i].kind = "message"
                     /\ turns[i].table = now_turn.table
                     /\ turns[i].said[1].content.text = question
                     /\ (OverdueQuestion(question) =>
                            turns[i].instant = now_turn.instant))
                    => turns[i].said[2] = now_turn.said[2]
              /\ now_turn.table = out
              /\ df' = df /\ out' = out
              /\ session_state'[AiChatKey] = session_state[AiChatKey]
              /\ session_state'[LocalChatKey] =
                    session_state[LocalChatKey] \o now_turn.said]_vars

\* the same question was asked twice on the same table, with a remote-AI
\* turn in between, and got the same answer
C20_Witness ==
    /\ Len(turns) = 3
    /\ turns[1].chat = "local" /\ turns[1].kind = "message"
    /\ turns[2].chat = "ai" /\ turns[2].kind = "message"
    /\ turns[3].chat = "local" /\ turns[3].kind = "message"
    /\ turns[1].table = turns[3].table
    /\ turns[1].said[1] = turns[3].said[1]
    /\ turns[1].said[2] = turns[3].said[2]
    /\ session_state[AiChatKey] # <<>>

(***************************************************************************)
(* components/ai_chat.py: ask_ai                                           *)
(*                                                                         *)
(* ask is the running call: the model and the attempt of the next request, *)
(* last_error, and the log of what the call did: the requests it sent with *)
(* the response each got, and the time.sleep calls with their milliseconds.*)
(***************************************************************************)
MODEL_OPTIONS ==
    <<"moonshotai/kimi-k2:free", "moonshotai/kimi-k2",
      "meta-llama/llama-3.2-3b-instruct:free">>

\* range(2)
Attempts == 2

\* what requests.post gives: a well-formed 200, a 200 without choices, a
\* status, or an exception (timeout, connection error)
Responses == {"ok", "no choices", "429", "400", "404", "500", "exception"}

\* data["choices"][0]["message"]["content"] of the well-formed response
Contents == {" Two tickets are in progress.  "}

Request(model, attempt, response) ==
    [kind |-> "request", model |-> model, attempt |-> attempt,
     response |-> response, ms |-> 0]

Sleep(model, attempt, ms) ==
    [kind |-> "sleep", model |-> model, attempt |-> attempt,
     response |-> None, ms |-> ms]

AskInit == ask = <<>>

\* chat_ui calls ask_ai
CallAskAi ==
    /\ ask = <<>>
    /\ ask' = [pc |-> "post", model |-> 1, attempt |-> 0, last_error |-> None,
               log |-> <<>>, result |-> None]
    /\ UNCHANGED <<page, auth, fetchVars, filterVars, kpiVars, chatVars, viewVars>>

\* the end of one pass of the inner loop: the next attempt, the next model,
\* or the raise after the loops
Continue(a, log, last_error) ==
    IF a.attempt + 1 < Attempts
    THEN [a EXCEPT !.attempt = @ + 1, !.log = log, !.last_error = last_error]
    ELSE IF a.model < Len(MODEL_OPTIONS)
    THEN [a EXCEPT !.model = @ + 1, !.attempt = 0, !.log = log,
                   !.last_error = last_error]
    ELSE [a EXCEPT !.pc = "raised", !.log = log, !.last_error = last_error,
                   !.result = "RuntimeError"]

\* break: the next model, or the raise after the loops
Break(a, log, last_error) ==
    IF a.model < Len(MODEL_OPTIONS)
    THEN [a EXCEPT !.model = @ + 1, !.attempt = 0, !.log = log,
                   !.last_error = last_error]
    ELSE [a EXCEPT !.pc = "raised", !.log = log, !.last_error = last_error,
                   !.result = "RuntimeError"]

\* one pass of the inner loop of ask_ai
AskAttempt(a, response, content) ==
    LET sent == Append(a.log, Request(a.model, a.attempt, response))
        last == a.attempt = Attempts - 1
    IN  CASE response = "429" ->
               Continue(a, Append(sent, Sleep(a.model, a.attempt,
                                              1000 * (1 + a.attempt))),
                        a.last_error)
          [] response \in {"404", "400"} ->
               Break(a, sent, "Model not available")
          [] response = "500" ->
               \* raise_for_status raises HTTPError: no sleep in that handler
               Continue(a, sent, IF last THEN "API error" ELSE a.last_error)
          [] response = "ok" ->
               [a EXCEPT !.pc = "returned", !.log = sent,
                         !.result = Strip(content)]
          [] OTHER ->
               \* ValueError or the exception of requests.post
               Continue(a, Append(sent, Sleep(a.model, a.attempt, 500)),
                        IF last THEN response ELSE a.last_error)

Post(response, content) ==
    /\ ask # <<>>
    /\ ask.pc = "post"
    /\ ask' = AskAttempt(ask, response, content)
    /\ UNCHANGED <<page, auth, fetchVars, filterVars, kpiVars, chatVars, viewVars>>

AskNext ==
    \/ CallAskAi
    \/ \E response \in Responses, content \in Contents : Post(response, content)

InitAsk ==
    /\ AskInit /\ page = <<>> /\ auth = <<>>
    /\ FetchIdle /\ FilterIdle /\ KpiIdle /\ ChatIdle /\ ViewIdle

SpecAsk == InitAsk /\ [][AskNext]_vars

\* positions in the log of the requests
RequestAt == {i \in 1..Len(ask.log) : ask.log[i].kind = "request"}

AtMostTwoPerModel ==
    \A m \in 1..Len(MODEL_OPTIONS) :
        Cardinality({i \in RequestAt : ask.log[i].model = m}) =< 2

FixedOrder ==
    \A i, j \in RequestAt : i < j => ask.log[i].model =< ask.log[j].model

AdvancesOnUnavailable ==
    \A i, j \in RequestAt :
        (i < j /\ ask.log[i].response \in {"400", "404"})
            => ask.log[j].model > ask.log[i].model

\* the sleeps between two attempts on the same model
DelaysBetween(i, j) == {k \in (i + 1)..(j - 1) : ask.log[k].kind = "sleep"}

\* the pairs of requests to one model
SameModel == {p \in RequestAt \X RequestAt :
                 p[1] < p[2] /\ ask.log[p[1]].model = ask.log[p[2]].model}

DelayBetweenAttempts ==
    /\ \A p \in SameModel : DelaysBetween(p[1], p[2]) # {}
    /\ Cardinality({ask.log[k].ms :
                      k \in UNION {DelaysBetween(p[1], p[2]) : p \in SameModel}})
          =< 1

ReturnsFirstSuccess ==
    \A i \in RequestAt :
        ask.log[i].response = "ok"
            => /\ i = Len(ask.log)
               /\ ask.pc = "returned"
               /\ ask.result \in {Strip(c) : c \in Contents}

Terminates ==
    /\ Cardinality(RequestAt) =< 2 * Len(MODEL_OPTIONS)
    /\ ask.pc = "post" => Cardinality(RequestAt) < 2 * Len(MODEL_OPTIONS)
    /\ ask.pc = "returned" => ask.result # "RuntimeError"
    /\ ask.pc = "raised" => ask.result = "RuntimeError"

\* C21: one ask_ai call sends at most two requests to a model, in the order of
\* MODEL_OPTIONS and never back to an earlier model, goes to the next model
\* on a 400 or 404, waits the same short delay between two attempts on one
\* model, returns the content of the first well-formed response and sends
\* nothing after it, and ends within 2 x |MODEL_OPTIONS| requests with an
\* answer or the all-models-failed error.
C21_AskAiRetries ==
    ask # <<>> =>
        /\ AtMostTwoPerModel
        /\ FixedOrder
        /\ AdvancesOnUnavailable
        /\ DelayBetweenAttempts
        /\ ReturnsFirstSuccess
        /\ Terminates

\* the remote-AI chat took a message in this step and ask_ai raised
AiFailed ==
    /\ Len(turns') = Len(turns) + 1
    /\ turns'[Len(turns')].chat = "ai"
    /\ turns'[Len(turns')].kind = "message"
    /\ \A i \in 1..Len(turns'[Len(turns')].said) :
          turns'[Len(turns')].said[i].role # "assistant"

\* C22: when ask_ai fails for all models and attempts, every turn that was in
\* the remote-AI history is still there in the same order, no assistant turn
\* was appended for the failed message, and the rule-based history and the
\* session table are as they were.
C22_FailurePreservesConversation ==
    [][AiFailed =>
          LET before == session_state[AiChatKey]
              after == session_state'[AiChatKey]
          IN  /\ Len(after) >= Len(before)
              /\ SubSeq(after, 1, Len(before)) = before
              /\ \A i \in (Len(before) + 1)..Len(after) :
                    after[i].role # "assistant"
              /\ session_state'[LocalChatKey] = session_state[LocalChatKey]
              /\ df' = df /\ out' = out]_vars

\* a conversation with an answered message, then a message whose request
\* failed: the answered turn is still in the history
C22_Witness ==
    /\ Len(turns) >= 2
    /\ turns[1].chat = "ai" /\ turns[1].kind = "message"
    /\ Len(turns[1].said) = 2
    /\ turns[2].chat = "ai" /\ turns[2].kind = "message"
    /\ Len(turns[2].said) = 1
    /\ session_state[AiChatKey] = turns[1].said \o turns[2].said

(***************************************************************************)
(* app.py: main, and components/authentication.py                          *)
(*                                                                         *)
(* One step is one interaction of the user with the page: the script run   *)
(* it triggers, and the run after st.rerun() when the handler asks for it. *)
(* auth holds the configured user map and st.session_state["auth_user"];   *)
(* page holds st.session_state.dashboard_df and dashboard_last_updated     *)
(* (<<>> while the key is absent), the state of the 'Load live data' box,  *)
(* and what the last interaction did: the view, the steps of main that     *)
(* ran, the table and label handed on, the sidebar message.  History:      *)
(* writes counts the assignments to each key, last_good is the last table  *)
(* main took from a load, submitted is the last login submission.          *)
(***************************************************************************)
\* st.secrets["auth"]["users"]: absent, or a map from user to password
UserMaps == {<<>>, [alice |-> "wonder", bob |-> ""]}

Usernames == {"", "admin", "alice", "bob"}
Passwords == {"", "admin123", "wonder"}

\* login_view: users_map of lines 79-86
users_map(users) == IF users = <<>> THEN [admin |-> "admin123"] ELSE users

\* dict.get
Get(map, key) == IF key \in DOMAIN map THEN map[key] ELSE None

\* login_view: the test of line 87, with any password
CredentialsAnyPassword(users, username, password) ==
    username # "" /\ Get(users_map(users), username) # None
\* login_view: the test of line 87
Credentials(users, username, password) ==
    username # "" /\ Get(users_map(users), username) = password

is_authenticated == auth.user # None

\* the steps of main after require_auth
DashboardSteps ==
    {"load_data_with_ui", "sidebar_filters", "apply_dataframe_filters",
     "kpi_area", "charts", "exports", "local_chat_ui", "chat_ui"}

LoadingLabel == [kind |-> "Demo (loading...)", ts |-> -1]

\* what load_data_with_ui gives main: a table with its label, or an exception;
\* main also guards against an empty table and against None
LoadOutcomes ==
    { [kind |-> "returned", df |-> Table("xlsx", FALSE),
       last_updated |-> TimestampLabel(0)],
      [kind |-> "returned", df |-> Table("csv_export", FALSE),
       last_updated |-> TimestampLabel(30)],
      [kind |-> "returned", df |-> _demo_df, last_updated |-> TimestampLabel(30)],
      [kind |-> "returned", df |-> _demo_df, last_updated |-> DemoLabel],
      [kind |-> "returned", df |-> Table("api", TRUE),
       last_updated |-> TimestampLabel(30)],
      [kind |-> "returned", df |-> <<>>, last_updated |-> DemoLabel],
      [kind |-> "raised", df |-> <<>>, last_updated |-> DemoLabel] }

NewSession ==
    [dashboard_df |-> <<>>, dashboard_last_updated |-> <<>>,
     load_live |-> FALSE, view |-> "none", ran |-> {}, shown |-> <<>>,
     shown_label |-> <<>>, message |-> None,
     writes |-> [dashboard_df |-> 0, dashboard_last_updated |-> 0],
     last_good |-> <<>>, submitted |-> <<>>, runs |-> 0]

\* an assignment to both keys of the session
Store(p, table, label) ==
    [p EXCEPT !.dashboard_df = table, !.dashboard_last_updated = label,
              !.writes = [dashboard_df |-> @.dashboard_df + 1,
                          dashboard_last_updated |-> @.dashboard_last_updated + 1]]

\* main, lines 133-136
Initialize(p) ==
    IF p.dashboard_df = <<>> \/ p.dashboard_last_updated = <<>>
    THEN Store(p, _demo_df, LoadingLabel)
    ELSE p

\* a handler that replaces the table and keeps the label
AfterLoadTableOnly(p, load_real_data, outcome) ==
    IF ~load_real_data
    THEN [p EXCEPT !.message = "Using demo data"]
    ELSE IF outcome.kind = "raised"
    THEN [p EXCEPT !.dashboard_df = _demo_df,
                   !.writes.dashboard_df = @ + 1, !.message = "Error"]
    ELSE IF outcome.df # <<>> /\ ~outcome.df.empty
    THEN [Store(p, outcome.df, outcome.last_updated)
             EXCEPT !.message = "Data loaded!", !.last_good = outcome.df]
    ELSE [p EXCEPT !.message = "No data loaded, using demo data"]
\* main, lines 149-169
AfterLoad(p, load_real_data, outcome) ==
    IF ~load_real_data
    THEN [p EXCEPT !.message = "Using demo data"]
    ELSE IF outcome.kind = "raised"
    THEN [Store(p, _demo_df, DemoLabel) EXCEPT !.message = "Error"]
    ELSE IF outcome.df # <<>> /\ ~outcome.df.empty
    THEN [Store(p, outcome.df, outcome.last_updated)
             EXCEPT !.message = "Data loaded!", !.last_good = outcome.df]
    ELSE [p EXCEPT !.message = "No data loaded, using demo data"]

\* main, lines 172-182
SafetyCheck(p) ==
    IF p.dashboard_df = <<>> \/ p.dashboard_df.empty
    THEN [Store(p, _demo_df, DemoLabel)
             EXCEPT !.shown = _demo_df, !.shown_label = DemoLabel]
    ELSE [p EXCEPT !.shown = p.dashboard_df,
                   !.shown_label = p.dashboard_last_updated]

\* one run of main
RunMain(p, authenticated, load_real_data, outcome) ==
    IF ~authenticated
    THEN \* require_auth: login_view and st.stop()
         [p EXCEPT !.view = "login", !.ran = {"login_view"}, !.shown = <<>>,
                   !.shown_label = <<>>, !.load_live = FALSE,
                   !.runs = @ + 1]
    ELSE [SafetyCheck(AfterLoad(Initialize(p), load_real_data, outcome))
            EXCEPT !.view = "dashboard",
                   !.ran = (DashboardSteps \ {"load_data_with_ui"})
                            \cup (IF load_real_data
                                  THEN {"load_data_with_ui"} ELSE {}),
                   !.load_live = load_real_data,
                   !.runs = @ + 1]

AppInit ==
    /\ auth \in {[users |-> u, user |-> None] : u \in UserMaps}
    /\ page = NewSession
    /\ ask = <<>>

\* the browser opens the page, or the page is loaded again
Visit(load_real_data, outcome) ==
    /\ page.runs < MaxRuns
    /\ page' = [RunMain(page, is_authenticated,
                        is_authenticated /\ load_real_data, outcome)
                  EXCEPT !.message = IF is_authenticated THEN @ ELSE None]
    /\ UNCHANGED <<auth, ask, fetchVars, filterVars, kpiVars, chatVars, viewVars>>

\* login_view: the form is submitted
LoginSubmit(username, password) ==
    /\ page.runs < MaxRuns
    /\ ~is_authenticated
    /\ page.view = "login"
    /\ IF Credentials(auth.users, username, password)
       THEN /\ auth' = [auth EXCEPT !.user = username]
            \* st.rerun(): the box is drawn with its default
            /\ page' = RunMain([page EXCEPT !.submitted = <<username, password>>],
                               TRUE, FALSE, CHOOSE o \in LoadOutcomes : TRUE)
       ELSE /\ auth' = auth
            /\ page' = [RunMain([page EXCEPT !.submitted = <<username, password>>],
                                FALSE, FALSE, CHOOSE o \in LoadOutcomes : TRUE)
                          EXCEPT !.message = "Invalid credentials"]
    /\ UNCHANGED <<ask, fetchVars, filterVars, kpiVars, chatVars, viewVars>>

\* logout_button: the key is removed, st.rerun() shows the login view
Logout ==
    /\ page.runs < MaxRuns
    /\ is_authenticated
    /\ page.view = "dashboard"
    /\ auth' = [auth EXCEPT !.user = None]
    /\ page' = [RunMain(page, FALSE, FALSE, CHOOSE o \in LoadOutcomes : TRUE)
                  EXCEPT !.message = None]
    /\ UNCHANGED <<ask, fetchVars, filterVars, kpiVars, chatVars, viewVars>>

\* the Refresh Data button: clear_data_cache, st.rerun()
RefreshData(outcome) ==
    /\ page.runs < MaxRuns
    /\ is_authenticated
    /\ page.view = "dashboard"
    /\ cache' = fetch_sheet_clear
    /\ clearedSince' = [p \in Pairs |-> TRUE]
    /\ page' = RunMain(page, TRUE, page.load_live, outcome)
    /\ UNCHANGED <<auth, ask, envVars, pc, published_url, fargs, fetched, ret,
                   attempts, now, loads, lastRun, filterVars, kpiVars, chatVars, viewVars>>

AppNext ==
    \/ \E load_real_data \in BOOLEAN, outcome \in LoadOutcomes :
          Visit(load_real_data, outcome)
    \/ \E username \in Usernames, password \in Passwords :
          LoginSubmit(username, password)
    \/ Logout
    \/ \E outcome \in LoadOutcomes : RefreshData(outcome)

InitApp == AppInit /\ FetchIdle /\ FilterIdle /\ KpiIdle /\ ChatIdle /\ ViewIdle

SpecApp == InitApp /\ [][AppNext]_vars

\* C23: after any sequence of interactions, the table handed to the filters,
\* KPIs, charts and chats is a non-empty table, the last table taken from a
\* load or the demo dataset, it is the session table with the session label,
\* and the two session keys were assigned the same number of times (always
\* together).
C23_SessionTableComplete ==
    /\ page.writes.dashboard_df = page.writes.dashboard_last_updated
    /\ page.view = "dashboard" =>
          /\ page.shown # <<>>
          /\ ~page.shown.empty
          /\ page.shown \in {_demo_df, page.last_good}
          /\ page.shown = page.dashboard_df
          /\ page.shown_label = page.dashboard_last_updated

\* a live table was loaded, then a load raised: the demo table is shown
C23_Witness ==
    /\ page.view = "dashboard"
    /\ page.message = "Error"
    /\ page.last_good = Table("xlsx", FALSE)
    /\ page.shown = _demo_df
    /\ page.shown_label = DemoLabel

\* C26: whenever 'Load live data' is unchecked in an interaction, the table
\* displayed and filtered is the demo dataset, as the sidebar message says.
C26_UncheckedShowsDemo ==
    (page.view = "dashboard" /\ ~page.load_live) =>
        /\ page.message = "Using demo data"
        /\ page.shown = _demo_df

\* the password the configuration gives a user: the map of the secrets, the
\* pair admin/admin123 without one
ConfiguredPassword(users, username) ==
    IF users = <<>>
    THEN (IF username = "admin" THEN "admin123" ELSE None)
    ELSE (IF username \in DOMAIN users THEN users[username] ELSE None)

\* C27: in every interaction where the session holds no authenticated user no
\* data load, filter, chart, export or chat step runs and only the login view
\* is shown; the authenticated user is set only by a login submission with a
\* non-empty username and the password configured for it; logout removes the
\* user, and the interaction ends on the login view.
C27_AuthenticationGates ==
    [][/\ auth'.user = None =>
             /\ page'.ran \cap DashboardSteps = {}
             /\ page'.view = "login"
             /\ page'.shown = <<>>
       /\ (auth'.user # None /\ auth'.user # auth.user) =>
             /\ auth.user = None
             /\ page'.submitted[1] = auth'.user
             /\ page'.submitted[1] # ""
             /\ page'.submitted[2] =
                   ConfiguredPassword(auth.users, page'.submitted[1])
       /\ (auth.user # None /\ auth'.user = None) => page'.view = "login"
       /\ auth'.users = auth.users]_vars

\* a user logged in with the configured password, used the dashboard and
\* logged out: the login view is shown
C27_Witness ==
    /\ auth.user = None
    /\ auth.users # <<>>
    /\ page.submitted = <<"alice", "wonder">>
    /\ page.view = "login"
    /\ page.dashboard_df # <<>>
    /\ page.runs >= 3

(***************************************************************************)
(* components/charts.py: chart_progress_funnel, and components/report.py:  *)
(* _build_kpis as generate_report_html prints it.  Plotly is installed.    *)
(***************************************************************************)
\* for c in df.columns: if c.lower() == "status": status_col = c; break
FunnelStatusColumn(t) ==
    LET matching == {i \in 1..Len(t.columns) : Lower(t.columns[i]) = "status"}
    IN  IF matching = {} THEN None
        ELSE t.columns[CHOOSE i \in matching : \A j \in matching : i <= j]

\* status_map, and fillna("Other") for the values it does not hold
status_map(v) ==
    CASE v \in {"pending", "backlog", "todo"} -> "Pending"
      [] v \in {"in progress", "in-progress", "inprogress"} -> "In Progress"
      [] v = "active" -> "Active"
      [] v \in {"completed", "done", "closed"} -> "Completed"
      [] OTHER -> "Other"

\* sdf["category"]: one stage per row, and the column it was read from
Funnel(t) ==
    LET status_col == FunnelStatusColumn(t)
    IN  [status_col |-> status_col,
         category |->
            IF status_col = None THEN <<>>
            ELSE [i \in 1..Len(t.rows) |->
                    status_map(Lower(PyStr(Cell(t, t.rows[i], status_col))))]]

\* main: chart_progress_funnel(filtered)
chart_progress_funnel ==
    /\ out # <<>>
    /\ kpi # <<>>
    /\ charts.funnel = <<>>
    /\ charts' = [charts EXCEPT !.funnel = Funnel(out)]
    /\ UNCHANGED <<sidebar, fetchVars, filterVars, kpiVars, chatVars, appVars>>

\* "Status" if "Status" in df.columns else ("status" if ... else None)
ReportStatusColumn(t) ==
    IF "Status" \in Range(t.columns) THEN "Status"
    ELSE IF "status" \in Range(t.columns) THEN "status"
    ELSE None

\* int(df[status_col].astype(str).str.lower().isin(values).sum())
ReportCount(t, col, values) ==
    Cardinality({i \in 1..Len(t.rows) :
                    Lower(PyStr(Cell(t, t.rows[i], col))) \in values})

\* total, active, completed, pending as the report lists them
_build_kpis(t) ==
    LET status_col == ReportStatusColumn(t)
    IN  [total |-> Len(t.rows),
         active |->
            IF status_col = None THEN 0
            ELSE ReportCount(t, status_col,
                             {"active", "in progress", "in-progress", "ongoing"}),
         completed |->
            IF status_col = None THEN 0
            ELSE ReportCount(t, status_col,
                             {"done", "completed", "closed", "finished"}),
         pending |->
            IF status_col = None THEN 0
            ELSE ReportCount(t, status_col,
                             {"pending", "backlog", "todo", "paused", "blocked"})]

\* main: generate_report_html(filtered)
generate_report_html ==
    /\ out # <<>>
    /\ charts.funnel # <<>>
    /\ charts.report = <<>>
    /\ charts' = [charts EXCEPT !.report = _build_kpis(out)]
    /\ UNCHANGED <<sidebar, fetchVars, filterVars, kpiVars, chatVars, appVars>>

\* one run of main on a filtered table: the KPI area, the funnel, the report
ChartsNext == kpi_area \/ chart_progress_funnel \/ generate_report_html

InitCharts == KpiInit /\ FetchIdle /\ KpiIdle /\ ChatIdle /\ AppIdle /\ ViewIdle

SpecCharts == InitCharts /\ [][ChartsNext]_vars

\* the bucket the KPI vocabulary gives a status value
KpiBucket(v) ==
    LET n == Lower(Strip(PyStr(v)))
    IN  CASE n \in PendingStatuses -> "Pending"
          [] n \in InProgressStatuses -> "In Progress"
          [] n \in ActiveStatuses -> "Active"
          [] n \in CompletedStatuses -> "Completed"
          [] OTHER -> "Other"

\* C24: for every status value of the table, the funnel gives it the stage
\* Pending, In Progress, Active or Completed exactly when the KPI vocabulary
\* puts it in the pending, in-progress, active or completed bucket, and Other
\* exactly when it is in no bucket.
C24_FunnelUsesKpiVocabulary ==
    (charts.funnel # <<>> /\ charts.funnel.status_col # None) =>
        \A i \in 1..Len(out.rows) :
            charts.funnel.category[i] =
                KpiBucket(Cell(out, out.rows[i], charts.funnel.status_col))

\* C30: the KPI list of the HTML report shows the numbers of the dashboard
\* KPI area: Total, Active Tickets, Completed Tickets and Pending/In-Progress
\* Tickets are equal for every filtered table.
C30_ReportKpisEqualDashboard ==
    (kpi # <<>> /\ charts.report # <<>>) =>
        /\ charts.report.total = kpi.total
        /\ charts.report.active = kpi.active_count
        /\ charts.report.completed = kpi.completed_count
        /\ charts.report.pending = kpi.pending_in_progress

(***************************************************************************)
(* Python's str.split, str.isupper, str.isalnum, as extract_clients and    *)
(* chart_projects_by_keywords use them.                                    *)
(***************************************************************************)
LowerLetters ==
    {"a", "b", "c", "d", "e", "f", "g", "h", "i", "j", "k", "l", "m", "n", "o",
     "p", "q", "r", "s", "t", "u", "v", "w", "x", "y", "z"}

IsUpperChar(c) == LowerChar(c) # c
IsLowerChar(c) == c \in LowerLetters
IsAlnumChar(c) == IsUpperChar(c) \/ IsLowerChar(c) \/ DigitValue(c) >= 0

CharAt(s, i) == SubSeq(s, i, i)

\* any(c.isupper() for c in word)
AnyUpper(word) == \E i \in 1..Len(word) : IsUpperChar(CharAt(word, i))

\* word.isupper(): a cased character, and no lower-case one
isupper(word) ==
    AnyUpper(word) /\ ~\E i \in 1..Len(word) : IsLowerChar(CharAt(word, i))

RECURSIVE Alnum(_)
\* ''.join(c for c in word if c.isalnum())
Alnum(word) ==
    IF word = "" THEN ""
    ELSE (IF IsAlnumChar(CharAt(word, 1)) THEN CharAt(word, 1) ELSE "")
            \o Alnum(SubSeq(word, 2, Len(word)))

RECURSIVE Fields(_, _)
\* the pieces of s between the separators, the empty ones included
Fields(s, seps) ==
    LET at == {i \in 1..Len(s) : CharAt(s, i) \in seps}
    IN  IF at = {} THEN <<s>>
        ELSE LET i == CHOOSE i \in at : \A j \in at : i <= j
             IN  <<SubSeq(s, 1, i - 1)>> \o Fields(SubSeq(s, i + 1, Len(s)), seps)

NonEmpty(w) == w # ""

\* v.split()
split(v) == SelectSeq(Fields(v, {" "}), NonEmpty)

\* [p.strip() for p in v.replace(";", ",").split(",") if p.strip()]
Parts(v) ==
    LET pieces == Fields(v, {";", ","})
    IN  SelectSeq([i \in 1..Len(pieces) |-> Strip(pieces[i])], NonEmpty)

RECURSIVE Flatten(_)
\* the sequences of a sequence, one after the other
Flatten(seqs) == IF seqs = <<>> THEN <<>> ELSE Head(seqs) \o Flatten(Tail(seqs))

(***************************************************************************)
(* components/utils.py: extract_clients, find_date_columns                 *)
(* components/filters.py: sidebar_filters as main calls it, followed by    *)
(* apply_dataframe_filters.  The options of a multiselect are a set here:  *)
(* their order on the screen is not modelled.                              *)
(***************************************************************************)
\* the values extract_clients takes from one word of a summary cell
ClientWords(word) ==
    (IF isupper(word) /\ Len(word) >= 2 THEN {Strip(word)} ELSE {})
        \cup (IF AnyUpper(word) /\ Len(word) >= 2
                 /\ Alnum(word) # "" /\ Len(Alnum(word)) >= 2
              THEN {Alnum(word)} ELSE {})

possible_cols ==
    {"Client", "client", "Customer", "customer", "Account", "account",
     "Keywords", "keywords", "Tags", "tags"}

\* df[col].dropna().astype(str)
DropNa(t, c) == {r.cells[c] : r \in Range(t.rows)} \ {NaN}

extract_clients(t) ==
    LET summary_cols == {c \in 1..Len(t.columns) : IsSummaryColumn(t.columns[c])}
        client_cols == {c \in 1..Len(t.columns) : t.columns[c] \in possible_cols}
        from_summary ==
            UNION {ClientWords(word) :
                     word \in UNION {Range(split(v)) :
                                       v \in UNION {DropNa(t, c) : c \in summary_cols}}}
        from_clients ==
            UNION {(IF Contains(v, ";") \/ Contains(v, ",")
                    THEN Range(Parts(v))
                    ELSE {Strip(v)}) :
                     v \in UNION {DropNa(t, c) : c \in client_cols}}
    IN  {v \in from_summary \cup from_clients : v # "" /\ Len(v) >= 2}

candidates ==
    <<"date", "Date", "created", "Created", "start", "Start", "start_date",
      "Start Date", "end", "End", "end_date", "End Date">>

find_date_columns(t) ==
    LET InTable(c) == c \in Range(t.columns)
        present == SelectSeq(candidates, InTable)
        Extra(c) == Contains(Lower(c), "date") /\ c \notin Range(present)
    IN  present \o SelectSeq(t.columns, Extra)

\* sorted({str(v) for v in df.get("Status", df.get("status", ...)).dropna()})
status_vals(t) ==
    LET col == StatusColumn(t)
    IN  IF col = None THEN {}
        ELSE {PyStr(Cell(t, r, col)) : r \in {r \in Range(t.rows) : Cell(t, r, col) # NaN}}

default_start == "2025-09-01"
default_end == "2025-12-01"

\* what the widgets of the sidebar let the user give
StatusChoices(t) == {<<>>} \cup {<<v>> : v \in status_vals(t)}
KeywordChoices(t) == {<<>>} \cup {<<k>> : k \in extract_clients(t)}
DateColumnChoices(t) ==
    IF find_date_columns(t) = <<>> THEN {None} ELSE Range(find_date_columns(t))
\* st.date_input: the two dates, or one date while the range is being picked
DateInputs ==
    {<<default_start, default_end>>, <<"2025-10-01", "2025-10-31">>, <<"2025-10-01">>}
SidebarQueries == {"", " acme "}

\* the criteria sidebar_filters returns
SidebarCriteria(t, status_pick, keyword_pick, col, date_input, query, clear_clicked) ==
    LET date_cols == find_date_columns(t)
        date_range ==
            IF date_cols # <<>> /\ Len(date_input) = 2
            THEN <<date_input[1], date_input[2]>>
            ELSE <<default_start, default_end>>
    IN  IF clear_clicked
        THEN Criteria(<<>>, <<>>, "", <<None, None>>)
        ELSE Criteria(status_pick, keyword_pick, query, date_range)

SidebarTextRows ==
    { <<"ACME rollout", "Globex; Initech", "2025-10-01">>,
      <<"Fix VP-30 bug", "acme", "2025-08-15">>,
      <<"renewal for Beta", NaN, "2025-12-15">> }
SidebarDateRows ==
    { <<"ACME rollout", "2025-10-01", "2025-08-15">>,
      <<"Fix VP-30 bug", "2025-08-15", "2025-10-01">> }
SidebarStatusRows ==
    { <<"Done", "Globex", "first">>, <<"Open", "acme, Beta", NaN>> }

SidebarTables ==
    {MakeTable(cols, cells) :
        cols \in {<<"Summary", "Client", "Created">>,
                  <<"Description", "Tags", "created_at">>},
        cells \in UNION {[1..n -> SidebarTextRows] : n \in 0..MaxRows}}
    \cup {MakeTable(<<"Summary", "Start", "Created">>, cells) :
            cells \in UNION {[1..n -> SidebarDateRows] : n \in 0..MaxRows}}
    \cup {MakeTable(<<"Status", "Client", "Notes">>, cells) :
            cells \in UNION {[1..n -> SidebarStatusRows] : n \in 0..MaxRows}}

SidebarInit ==
    /\ df \in SidebarTables
    /\ crit = <<>>
    /\ out = <<>>
    /\ sidebar = <<>>
    /\ charts = NoCharts

\* main: sidebar_filters(df), then apply_dataframe_filters(df, ...)
SidebarFilters(status_pick, keyword_pick, col, date_input, query, clear_clicked) ==
    /\ sidebar = <<>>
    /\ sidebar' = [status_vals |-> status_vals(df),
                   keywords |-> extract_clients(df),
                   date_cols |-> find_date_columns(df),
                   col |-> col,
                   clear_clicked |-> clear_clicked]
    /\ crit' = SidebarCriteria(df, status_pick, keyword_pick, col, date_input,
                               query, clear_clicked)
    /\ out' = apply_dataframe_filters(
                 df, SidebarCriteria(df, status_pick, keyword_pick, col,
                                     date_input, query, clear_clicked))
    /\ UNCHANGED <<df, charts, fetchVars, kpiVars, chatVars, appVars>>

(***************************************************************************)
(* components/charts.py: chart_projects_by_keywords (the tables of the     *)
(* model hold fewer than the 20 keywords the chart shows)                  *)
(***************************************************************************)
\* the keys one word of a summary cell adds 1 to, in the order of the code
ChartWordKeys(word) ==
    (IF isupper(word) /\ Len(word) >= 2 THEN <<Strip(word)>> ELSE <<>>)
        \o (IF Alnum(word) # "" /\ Len(Alnum(word)) >= 2 /\ AnyUpper(Alnum(word))
            THEN <<Alnum(word)>> ELSE <<>>)

\* the keys a summary cell adds 1 to
ChartCellKeys(v) ==
    LET words == split(FillNaStr(v))
    IN  Flatten([i \in 1..Len(words) |-> ChartWordKeys(words[i])])

\* the keys the column c adds 1 to, row after row
ChartColumnKeys(t, c, summary) ==
    Flatten([i \in 1..Len(t.rows) |->
               IF summary THEN ChartCellKeys(t.rows[i].cells[c])
               ELSE Parts(FillNaStr(t.rows[i].cells[c]))])

\* client_counts: every key with the number of times 1 was added to it
client_counts(t) ==
    LET added ==
            Flatten([c \in 1..Len(t.columns) |->
                       IF IsSummaryColumn(t.columns[c])
                       THEN ChartColumnKeys(t, c, TRUE) ELSE <<>>])
            \o Flatten([c \in 1..Len(t.columns) |->
                          IF IsKeywordColumn(t.columns[c])
                          THEN ChartColumnKeys(t, c, FALSE) ELSE <<>>])
    IN  [k \in Range(added) |-> Cardinality({i \in 1..Len(added) : added[i] = k})]

\* main: chart_projects_by_keywords(filtered)
chart_projects_by_keywords ==
    /\ sidebar # <<>>
    /\ charts.keywords = <<>>
    /\ charts' = [charts EXCEPT !.keywords = [client_counts |-> client_counts(out)]]
    /\ UNCHANGED <<sidebar, fetchVars, filterVars, kpiVars, chatVars, appVars>>

SidebarNext ==
    \/ \E status_pick \in StatusChoices(df), keyword_pick \in KeywordChoices(df),
          col \in DateColumnChoices(df), date_input \in DateInputs,
          query \in SidebarQueries, clear_clicked \in BOOLEAN :
           SidebarFilters(status_pick, keyword_pick, col, date_input, query,
                          clear_clicked)
    \/ chart_projects_by_keywords

InitSidebar == SidebarInit /\ FetchIdle /\ KpiIdle /\ ChatIdle /\ AppIdle

SpecSidebar == InitSidebar /\ [][SidebarNext]_vars

\* C28: every keyword the sidebar offers for a table selects a row of it:
\* apply_dataframe_filters with that keyword alone returns a table with rows.
C28_OfferedKeywordSelectsRows ==
    sidebar # <<>> =>
        \A k \in sidebar.keywords :
            apply_dataframe_filters(
                df, Criteria(<<>>, <<k>>, "", <<None, None>>)).rows # <<>>

\* the date stage on the column dc
DateStageOn(t, date_range, dc) ==
    LET s == [i \in Index(t) |-> to_datetime(Cell(t, Loc(t, i), dc))]
        FromStart == {i \in Index(t) :
                        s[i] # NaT /\ s[i] >= to_datetime(date_range[1])}
        ToEnd == {i \in Index(t) : s[i] # NaT /\ s[i] <= to_datetime(date_range[2])}
        narrowed == IF date_range[1] # None THEN BoolIndex(t, FromStart) ELSE t
    IN  IF date_range[2] # None THEN BoolIndex(narrowed, ToEnd) ELSE narrowed

\* the filtered table, had the date stage used the column chosen in the sidebar
FilteredOnChosenColumn ==
    QueryStage(
        DateStageOn(KeywordStage(StatusStage(df, crit.status_pick),
                                 crit.keyword_pick),
                    crit.date_range, sidebar.col),
        crit.query)

\* the filtered table, had the criteria held no date range
FilteredWithoutDates ==
    apply_dataframe_filters(df, [crit EXCEPT !.date_range = <<None, None>>])

\* C29: the date range is applied to the column chosen in the 'Date column'
\* selector, and when the sidebar found no date column and offered no date
\* range input the criteria put no date constraint on the table.
C29_DateColumnSelectorIsUsed ==
    sidebar # <<>> =>
        /\ (sidebar.col # None /\ ~sidebar.clear_clicked)
              => out = FilteredOnChosenColumn
        /\ sidebar.date_cols = <<>> => out = FilteredWithoutDates

\* the keywords a word of a summary cell stands for: the word itself when it
\* is upper-case, and its letters and digits when they hold a capital
KeywordsOfWord(word) ==
    (IF isupper(word) /\ Len(word) >= 2 THEN {Strip(word)} ELSE {})
        \cup (IF Alnum(word) # "" /\ Len(Alnum(word)) >= 2 /\ AnyUpper(Alnum(word))
              THEN {Alnum(word)} ELSE {})

\* the occurrences of the keyword k in the table: the words of the summary
\* cells that stand for it and the fragments of the client cells equal to it
Occurrences(t, k) ==
    Cardinality({p \in (1..Len(t.rows)) \X (1..Len(t.columns)) \X (1..8) :
                    LET v == FillNaStr(t.rows[p[1]].cells[p[2]])
                    IN  /\ IsSummaryColumn(t.columns[p[2]])
                        /\ p[3] <= Len(split(v))
                        /\ k \in KeywordsOfWord(split(v)[p[3]])})
    + Cardinality({p \in (1..Len(t.rows)) \X (1..Len(t.columns)) \X (1..8) :
                    LET v == FillNaStr(t.rows[p[1]].cells[p[2]])
                    IN  /\ IsKeywordColumn(t.columns[p[2]])
                        /\ p[3] <= Len(Parts(v))
                        /\ Parts(v)[p[3]] = k})

\* C25: in the counts of the keyword chart every occurrence of a keyword, as
\* a qualifying word of a summary cell or as a fragment of a client cell,
\* adds exactly 1: the count of a keyword is the number of its occurrences
\* in the table (one "ACME" in the table gives the count 1).
C25_KeywordCountsOccurrences ==
    charts.keywords # <<>> =>
        \A k \in DOMAIN charts.keywords.client_counts :
            charts.keywords.client_counts[k] = Occurrences(out, k)

====
